---- MODULE Spec2Model ----
(***************************************************************************)
(* FitFlow server: the request handlers of the latest revision of the      *)
(* service (src/unnamed/part_002, lines 1676-3309; src/unnamed/part_001   *)
(* is the same revision with comments) as a state machine over the         *)
(* MongoDB collections.  Every handler is split at its awaits: one action  *)
(* per store operation, executed atomically on one document, with the      *)
(* handler's local variables kept in the request's record between them.    *)
(***************************************************************************)
EXTENDS Integers, Sequences, FiniteSets, TLC

VARIABLES
    usersCollection,      \* email -> user document (role)
    trainerCollection,    \* trainer _id -> trainer document
    bookingsCollection,   \* set of booking documents
    communityCollection,  \* post _id -> forum post document
    bookReq,              \* POST /bookings requests in flight
    slotReq,              \* DELETE /trainers/slots/:slotId requests in flight
    rateReq,              \* POST /trainers/rating/:id requests in flight
    voteReq,              \* POST /community/vote requests in flight
    postReq,              \* POST /community requests in flight
    statusReq,            \* PATCH /trainers/:id/status requests in flight
    reviewsCollection,    \* set of review documents
    applyReq,             \* POST /trainers requests in flight
    userReq,              \* POST /users, PATCH /users, POST /register requests
    patchReq,             \* PATCH /bookings/:id requests in flight
    reviewReq,            \* POST /reviews requests in flight
    slotAddReq,           \* POST /trainers/slots requests in flight
    now                   \* the millisecond clock: the instant of the last read

vars == <<usersCollection, trainerCollection, bookingsCollection, communityCollection,
          bookReq, slotReq, rateReq, voteReq, postReq, statusReq,
          reviewsCollection, applyReq, userReq, patchReq, reviewReq, slotAddReq, now>>

(***************************************************************************)
(* Bounds of the model.                                                    *)
(***************************************************************************)
NBook == 2
NSlotDel == 1
NValidate == 2
NRate == 2
NVote == 2
NPost == 1
NStatus == 2
MaxCap == 2
\* The last millisecond of the clock; the stored documents were last written
\* at instant 0, the requests read the clock from instant 1 on.
MaxClock == 2

(***************************************************************************)
(* Values.  NoValue is a body field that is missing (undefined / falsy).   *)
(***************************************************************************)
NoValue == "undefined"
BadId == "not-an-object-id"
\* The handler's targetSlot before the aggregation has answered.
NoSlot == [maxParticipants |-> 0, bookingCount |-> 0]

Members == {"m1", "m2"}
TrainerOneEmail == "tr1"
TrainerTwoEmail == "tr2"
AdminEmail == "adm"
\* The principals that rate trainers.
Raters == Members \cup {"m3"}
\* t1 and t2 are stored trainers, t9 is a well-formed id of no document.
ObjectIds == {"t1", "t2", "t9"}
SlotIds == {"s1", "s2"}

BookRequests == 1..NBook
SlotRequests == 1..NSlotDel
ValidationRequests == 1..NValidate
RateRequests == 1..NRate
VoteRequests == 1..NVote
PostRequests == 1..NPost
StatusRequests == 1..NStatus

\* new Date() / Date.now(): the clock has not moved since it was last read, or
\* it has moved on; MaxClock is the last instant looked at.
Instants == now..MaxClock

\* Date.now().toString(): the decimal numeral of the instant.
ClockString(instant) == ToString(instant)

RECURSIVE SeqIndexOf(_, _, _)
\* Array.prototype.findIndex / the positional operator $: the first index whose
\* element has the given id, 0 when there is none.
SeqIndexOf(s, id, i) ==
    IF i > Len(s) THEN 0
    ELSE IF s[i].id = id THEN i
    ELSE SeqIndexOf(s, id, i + 1)

HasSlot(trainer, slotId) == SeqIndexOf(trainer.slots, slotId, 1) # 0

\* A slot as POST /trainers/slots stores it: no booking yet, isBooked not set
\* (an absent isBooked reads as falsy, modelled FALSE).
NewSlot(id, maxParticipants) ==
    [id |-> id, maxParticipants |-> maxParticipants, bookingCount |-> 0,
     bookedMembers |-> <<>>, isBooked |-> FALSE]

\* A trainer document as POST /trainers stores it, updatedAt being the
\* instant the handler read.
NewTrainer(email, slots, updatedAt) ==
    [email |-> email, status |-> "pending", rating |-> [num |-> 0, den |-> 1],
     ratings |-> <<>>, slots |-> slots, updatedAt |-> updatedAt]

(***************************************************************************)
(* POST /bookings                                                          *)
(***************************************************************************)
IdleBook ==
    [pc |-> "idle", res |-> 0, principal |-> NoValue, email |-> NoValue,
     trainerId |-> NoValue, slotId |-> NoValue, complete |-> FALSE,
     wellFormed |-> FALSE, targetSlot |-> NoSlot, date |-> 0]

\* price as the body carries it: its typeof and, for a number, its value.
Prices ==
    { [type |-> "undefined", value |-> 0], [type |-> "string", value |-> 0],
      [type |-> "number", value |-> 0], [type |-> "number", value |-> 25] }

GoodPrice == [type |-> "number", value |-> 25]

\* The request bodies tried: every field right, or exactly one of trainerId,
\* slotId, price, transactionId defective; email is any member's or missing.
BookingBodies ==
    { b \in [email : Members \cup {NoValue},
             trainerId : ObjectIds \cup {NoValue, BadId},
             slotId : SlotIds \cup {NoValue},
             price : Prices,
             transactionId : {"tx", NoValue}] :
        Cardinality({f \in {"trainerId", "slotId", "price", "transactionId"} :
            \/ f = "trainerId" /\ b.trainerId \in {NoValue, BadId}
            \/ f = "slotId" /\ b.slotId = NoValue
            \/ f = "price" /\ b.price # GoodPrice
            \/ f = "transactionId" /\ b.transactionId = NoValue}) <= 1
        /\ (b.trainerId \in {NoValue, BadId} \/ b.slotId = NoValue
            \/ b.price # GoodPrice \/ b.transactionId = NoValue
              => b.trainerId \in {"t1", NoValue, BadId} /\ b.slotId \in {"s1", NoValue}) }

\* No required field is missing: !email, !trainerId, !slotId,
\* typeof price === 'undefined' and !transactionId are all false.
FieldsPresent(body) ==
    /\ body.email # NoValue /\ body.trainerId # NoValue /\ body.slotId # NoValue
    /\ body.price.type # "undefined" /\ body.transactionId # NoValue

\* The checks on every field but the e-mail comparison.
FieldsWellFormed(body) ==
    /\ body.trainerId \notin {NoValue, BadId}
    /\ body.slotId # NoValue
    /\ body.price.type = "number" /\ body.price.value > 0
    /\ body.transactionId # NoValue

\* The validation without the comparison of the body's email with the token's.
ValidateBookingNoOwnerCheck(principal, body) ==
    IF \/ body.email = NoValue \/ body.trainerId = NoValue \/ body.slotId = NoValue
       \/ body.price.type = "undefined" \/ body.transactionId = NoValue
    THEN 400
    ELSE IF body.trainerId = BadId THEN 400
    ELSE IF body.price.type # "number" \/ body.price.value <= 0 THEN 400
    ELSE 0

\* The validation at the head of the handler, in the code's order: the HTTP
\* status it answers with, 0 when the request passes.
ValidateBooking(principal, body) ==
    IF \/ body.email = NoValue \/ body.trainerId = NoValue \/ body.slotId = NoValue
       \/ body.price.type = "undefined" \/ body.transactionId = NoValue
    THEN 400
    ELSE IF body.trainerId = BadId THEN 400
    ELSE IF body.price.type # "number" \/ body.price.value <= 0 THEN 400
    ELSE IF principal # body.email THEN 403
    ELSE 0

BookingPost(p, principal, body) ==
    /\ bookReq[p].pc = "idle"
    /\ LET verdict == ValidateBooking(principal, body)
           seen == [IdleBook EXCEPT !.principal = principal, !.email = body.email,
                                    !.complete = FieldsPresent(body),
                                    !.wellFormed = FieldsWellFormed(body)]
       IN  bookReq' = [bookReq EXCEPT ![p] =
               IF verdict # 0
               THEN [seen EXCEPT !.pc = "done", !.res = verdict]
               ELSE [seen EXCEPT !.pc = "aggregate", !.trainerId = body.trainerId,
                                 !.slotId = body.slotId]]
    /\ UNCHANGED <<now, reviewsCollection, applyReq, userReq, patchReq, reviewReq, slotAddReq,
                   usersCollection, trainerCollection, bookingsCollection,
                   communityCollection, slotReq, rateReq, voteReq, postReq, statusReq>>

(***************************************************************************)
(* POST /bookings of the revision src/index.js, its head.                  *)
(***************************************************************************)
\* The head of the handler, in the code's order: 400 when a required field
\* is falsy (!price is true of a missing price and of 0; a price given as
\* text is not empty), 403 when the body's email is not the token's; then
\* new ObjectId(trainerId) throws for an id that is none and the catch block
\* answers 500.  0 when the request passes.
IndexValidateBooking(principal, body) ==
    IF ~FieldsPresent(body) \/ (body.price.type = "number" /\ body.price.value = 0)
    THEN 400
    ELSE IF principal # body.email THEN 403
    ELSE IF body.trainerId = BadId THEN 500
    ELSE 0

IndexBookingPost(p, principal, body) ==
    /\ bookReq[p].pc = "idle"
    /\ LET verdict == IndexValidateBooking(principal, body)
           seen == [IdleBook EXCEPT !.principal = principal, !.email = body.email,
                                    !.complete = FieldsPresent(body),
                                    !.wellFormed = FieldsWellFormed(body)]
       IN  bookReq' = [bookReq EXCEPT ![p] =
               IF verdict # 0
               THEN [seen EXCEPT !.pc = "done", !.res = verdict]
               ELSE [seen EXCEPT !.pc = "insert", !.trainerId = body.trainerId,
                                 !.slotId = body.slotId]]
    /\ UNCHANGED <<now, usersCollection, trainerCollection, bookingsCollection,
                   communityCollection, reviewsCollection, slotReq, rateReq, voteReq,
                   postReq, statusReq, applyReq, userReq, patchReq, reviewReq, slotAddReq>>

(***************************************************************************)
(* POST /bookings of the latest revision, after its validation.            *)
(***************************************************************************)
\* The aggregation: the accepted trainer of that id, its slots unwound, those
\* of the slot id; the first row is used.
TrainerAndSlot(trainerId, slotId) ==
    IF trainerId \in DOMAIN trainerCollection
       /\ trainerCollection[trainerId].status = "accepted"
    THEN SelectSeq(trainerCollection[trainerId].slots, LAMBDA s : s.id = slotId)
    ELSE <<>>

SlotIsFull(targetSlot) == targetSlot.bookingCount >= targetSlot.maxParticipants

BookingAggregate(p) ==
    /\ bookReq[p].pc = "aggregate"
    /\ LET rows == TrainerAndSlot(bookReq[p].trainerId, bookReq[p].slotId)
       IN  bookReq' = [bookReq EXCEPT ![p] =
               IF rows = <<>> THEN [@ EXCEPT !.pc = "done", !.res = 404]
               ELSE IF SlotIsFull(rows[1]) THEN [@ EXCEPT !.pc = "done", !.res = 409]
               ELSE [@ EXCEPT !.pc = "insert",
                              !.targetSlot = [maxParticipants |-> rows[1].maxParticipants,
                                              bookingCount |-> rows[1].bookingCount]]]
    /\ UNCHANGED <<now, reviewsCollection, applyReq, userReq, patchReq, reviewReq, slotAddReq,
                   usersCollection, trainerCollection, bookingsCollection,
                   communityCollection, slotReq, rateReq, voteReq, postReq, statusReq>>

\* The booking document; its _id is the request that inserted it.
BookingDocument(p) ==
    [_id |-> p, email |-> bookReq[p].email, trainerId |-> bookReq[p].trainerId,
     slotId |-> bookReq[p].slotId, price |-> GoodPrice.value, transactionId |-> "tx",
     paymentStatus |-> "Completed", hasReviewed |-> FALSE]

\* insertOne; the handler then builds updateFieldsForSlot, its updatedAt read
\* from the clock.
BookingInsert(p) ==
    /\ bookReq[p].pc = "insert"
    /\ bookingsCollection' = bookingsCollection \cup {BookingDocument(p)}
    /\ \E date \in Instants :
           /\ now' = date
           /\ bookReq' = [bookReq EXCEPT ![p].pc = "update", ![p].date = date]
    /\ UNCHANGED <<reviewsCollection, applyReq, userReq, patchReq, reviewReq, slotAddReq,
                   usersCollection, trainerCollection, communityCollection,
                   slotReq, rateReq, voteReq, postReq, statusReq>>

\* isSlotFullyBooked, from the slot as the aggregation read it.
IsSlotFullyBooked(targetSlot) ==
    \/ targetSlot.maxParticipants = 1
    \/ targetSlot.bookingCount + 1 >= targetSlot.maxParticipants

\* The slot update that counts the seat without recording the member.
CountedSlots(slots, slotId, member, fullyBooked) ==
    LET i == SeqIndexOf(slots, slotId, 1)
    IN  [slots EXCEPT ![i] =
            [@ EXCEPT !.bookingCount = @ + 1,
                      !.isBooked = IF fullyBooked THEN TRUE ELSE @]]

\* updateFieldsForSlot applied to the first slot of that id.
UpdatedSlots(slots, slotId, member, fullyBooked) ==
    LET i == SeqIndexOf(slots, slotId, 1)
    IN  [slots EXCEPT ![i] =
            [@ EXCEPT !.bookingCount = @ + 1,
                      !.bookedMembers = Append(@, member),
                      !.isBooked = IF fullyBooked THEN TRUE ELSE @]]

BookingUpdateSlot(p) ==
    /\ bookReq[p].pc = "update"
    /\ LET t == bookReq[p].trainerId
       IN  IF t \in DOMAIN trainerCollection /\ HasSlot(trainerCollection[t], bookReq[p].slotId)
           THEN /\ trainerCollection' = [trainerCollection EXCEPT ![t].slots =
                       UpdatedSlots(@, bookReq[p].slotId, bookReq[p].email,
                                    IsSlotFullyBooked(bookReq[p].targetSlot)),
                       ![t].updatedAt = bookReq[p].date]
                /\ bookReq' = [bookReq EXCEPT ![p].pc = "done", ![p].res = 201,
                                              ![p].date = 0]
           ELSE /\ bookReq' = [bookReq EXCEPT ![p].pc = "rollback", ![p].date = 0]
                /\ UNCHANGED trainerCollection
    /\ UNCHANGED <<now, reviewsCollection, applyReq, userReq, patchReq, reviewReq, slotAddReq,
                   usersCollection, bookingsCollection, communityCollection,
                   slotReq, rateReq, voteReq, postReq, statusReq>>

\* The rollback without its deleteOne.
KeepBooking(p) == bookingsCollection

\* bookingsCollection.deleteOne({ _id: bookingResult.insertedId })
DeleteBooking(p) == {b \in bookingsCollection : b._id # p}

BookingRollback(p) ==
    /\ bookReq[p].pc = "rollback"
    /\ bookingsCollection' = DeleteBooking(p)
    /\ bookReq' = [bookReq EXCEPT ![p].pc = "done", ![p].res = 500]
    /\ UNCHANGED <<now, reviewsCollection, applyReq, userReq, patchReq, reviewReq, slotAddReq,
                   usersCollection, trainerCollection, communityCollection,
                   slotReq, rateReq, voteReq, postReq, statusReq>>

(***************************************************************************)
(* DELETE /trainers/slots/:slotId                                          *)
(***************************************************************************)
IdleSlotReq ==
    [pc |-> "idle", res |-> 0, principal |-> NoValue, slotId |-> NoValue,
     trainerId |-> NoValue]

\* The lookup that forgets the owner: any trainer holding a slot of that id.
TrainersWithSlot(principal, slotId) ==
    {t \in DOMAIN trainerCollection : HasSlot(trainerCollection[t], slotId)}

\* findOne({ email: trainerEmail, "slots.id": slotId }): the trainers it matches.
OwnedTrainers(principal, slotId) ==
    {t \in DOMAIN trainerCollection :
        trainerCollection[t].email = principal /\ HasSlot(trainerCollection[t], slotId)}

SlotDeleteFind(r, principal, slotId) ==
    /\ slotReq[r].pc = "idle"
    /\ IF OwnedTrainers(principal, slotId) = {}
       THEN slotReq' = [slotReq EXCEPT ![r] =
                [IdleSlotReq EXCEPT !.pc = "done", !.res = 404,
                                    !.principal = principal, !.slotId = slotId]]
       ELSE \E t \in OwnedTrainers(principal, slotId) :
                slotReq' = [slotReq EXCEPT ![r] =
                    [IdleSlotReq EXCEPT !.pc = "pull", !.principal = principal,
                                        !.slotId = slotId, !.trainerId = t]]
    /\ UNCHANGED <<now, reviewsCollection, applyReq, userReq, patchReq, reviewReq, slotAddReq,
                   usersCollection, trainerCollection, bookingsCollection,
                   communityCollection, bookReq, rateReq, voteReq, postReq, statusReq>>

\* $pull: { slots: { id: slotId } } removes every slot of that id.
SlotDeletePull(r) ==
    /\ slotReq[r].pc = "pull"
    /\ LET t == slotReq[r].trainerId
           kept == SelectSeq(trainerCollection[t].slots, LAMBDA s : s.id # slotReq[r].slotId)
       IN  /\ trainerCollection' = [trainerCollection EXCEPT ![t].slots = kept]
           /\ slotReq' = [slotReq EXCEPT ![r].pc = "done",
                  ![r].res = IF kept = trainerCollection[t].slots THEN 500 ELSE 200]
    /\ UNCHANGED <<now, reviewsCollection, applyReq, userReq, patchReq, reviewReq, slotAddReq,
                   usersCollection, bookingsCollection, communityCollection,
                   bookReq, rateReq, voteReq, postReq, statusReq>>

(***************************************************************************)
(* POST /trainers/rating/:id                                               *)
(***************************************************************************)
IdleRate ==
    [pc |-> "idle", res |-> 0, principal |-> NoValue, trainerId |-> NoValue,
     rating |-> 0, ratings |-> <<>>, date |-> 0]

\* rating as the body carries it: its typeof and, for a number, its value.
RatingValues ==
    { [type |-> "string", value |-> 0] } \cup
    { [type |-> "number", value |-> v] : v \in {0, 3, 4, 5, 6} }

RatingInRange(rating) ==
    rating.type = "number" /\ rating.value >= 1 /\ rating.value <= 5

RatingPost(r, principal, trainerId, rating) ==
    /\ rateReq[r].pc = "idle"
    /\ rateReq' = [rateReq EXCEPT ![r] =
           IF ~RatingInRange(rating)
           THEN [IdleRate EXCEPT !.pc = "done", !.res = 400, !.principal = principal,
                                 !.trainerId = trainerId]
           ELSE [IdleRate EXCEPT !.pc = "findTrainer", !.principal = principal,
                                 !.trainerId = trainerId, !.rating = rating.value]]
    /\ UNCHANGED <<now, reviewsCollection, applyReq, userReq, patchReq, reviewReq, slotAddReq,
                   usersCollection, trainerCollection, bookingsCollection,
                   communityCollection, bookReq, slotReq, voteReq, postReq, statusReq>>

\* The already-rated test without its comparison of e-mails.
NeverRated(ratings, email) == FALSE

\* trainer.ratings?.find((r) => r.email === userEmail)
AlreadyRated(ratings, email) == \E i \in 1..Len(ratings) : ratings[i].email = email

RatingFindTrainer(r) ==
    /\ rateReq[r].pc = "findTrainer"
    /\ LET t == rateReq[r].trainerId
       IN  rateReq' = [rateReq EXCEPT ![r] =
               IF t \notin DOMAIN trainerCollection
               THEN [@ EXCEPT !.pc = "done", !.res = 404]
               ELSE IF trainerCollection[t].status # "accepted"
               THEN [@ EXCEPT !.pc = "done", !.res = 403]
               ELSE IF AlreadyRated(trainerCollection[t].ratings, rateReq[r].principal)
               THEN [@ EXCEPT !.pc = "done", !.res = 409]
               ELSE [@ EXCEPT !.pc = "findUser", !.ratings = trainerCollection[t].ratings]]
    /\ UNCHANGED <<now, reviewsCollection, applyReq, userReq, patchReq, reviewReq, slotAddReq,
                   usersCollection, trainerCollection, bookingsCollection,
                   communityCollection, bookReq, slotReq, voteReq, postReq, statusReq>>

\* usersCollection.findOne({ email: userEmail }): the rater's name and photo,
\* which the model's rating entries do not carry; the handler then builds
\* the update, its updatedAt read from the clock.
RatingFindUser(r) ==
    /\ rateReq[r].pc = "findUser"
    /\ \E date \in Instants :
           /\ now' = date
           /\ rateReq' = [rateReq EXCEPT ![r].pc = "update", ![r].date = date]
    /\ UNCHANGED <<reviewsCollection, applyReq, userReq, patchReq, reviewReq, slotAddReq,
                   usersCollection, trainerCollection, bookingsCollection,
                   communityCollection, bookReq, slotReq, voteReq, postReq, statusReq>>

RECURSIVE GCD(_, _)
GCD(a, b) == IF b = 0 THEN a ELSE GCD(b, a % b)

\* The quotient sum / count as an exact fraction in lowest terms (the code's
\* result is the double nearest to it).
Quotient(sum, count) ==
    LET g == GCD(sum, count) IN [num |-> sum \div g, den |-> count \div g]

RECURSIVE SumRatings(_)
\* updatedRatings.reduce((sum, r) => sum + r.rating, 0)
SumRatings(ratings) ==
    IF ratings = <<>> THEN 0 ELSE ratings[1].rating + SumRatings(Tail(ratings))

\* The average taken as the mean of the previous average and the new rating.
RunningAverage(updatedRatings) ==
    IF Len(updatedRatings) = 1 THEN Quotient(updatedRatings[1].rating, 1)
    ELSE LET before == SubSeq(updatedRatings, 1, Len(updatedRatings) - 1)
         IN  Quotient(SumRatings(before) + Len(before) * updatedRatings[Len(updatedRatings)].rating,
                      2 * Len(before))

\* avgRating
AvgRating(updatedRatings) == Quotient(SumRatings(updatedRatings), Len(updatedRatings))

RatingUpdate(r) ==
    /\ rateReq[r].pc = "update"
    /\ LET t == rateReq[r].trainerId
           updatedRatings == Append(rateReq[r].ratings,
                                    [email |-> rateReq[r].principal, rating |-> rateReq[r].rating])
       IN  trainerCollection' =
               IF t \in DOMAIN trainerCollection
               THEN [trainerCollection EXCEPT ![t].ratings = updatedRatings,
                                              ![t].rating = AvgRating(updatedRatings),
                                              ![t].updatedAt = rateReq[r].date]
               ELSE trainerCollection
    /\ rateReq' = [rateReq EXCEPT ![r] = [@ EXCEPT !.pc = "done", !.res = 200, !.ratings = <<>>,
                                                   !.date = 0]]
    /\ UNCHANGED <<now, reviewsCollection, applyReq, userReq, patchReq, reviewReq, slotAddReq,
                   usersCollection, bookingsCollection, communityCollection,
                   bookReq, slotReq, voteReq, postReq, statusReq>>

(***************************************************************************)
(* POST /community.  Post 0 is stored from the start; the post inserted by *)
(* request c gets the fresh _id c.                                         *)
(***************************************************************************)
IdlePost == [pc |-> "idle", res |-> 0, principal |-> NoValue]

\* The post document as the handler builds it.
NewPost(email) == [email |-> email, likes |-> 0, dislikes |-> 0, votes |-> <<>>]

CommunityPost(c, principal, complete) ==
    /\ postReq[c].pc = "idle"
    /\ postReq' = [postReq EXCEPT ![c] =
           IF ~complete THEN [pc |-> "done", res |-> 400, principal |-> principal]
           ELSE [pc |-> "findUser", res |-> 0, principal |-> principal]]
    /\ UNCHANGED <<now, reviewsCollection, applyReq, userReq, patchReq, reviewReq, slotAddReq,
                   usersCollection, trainerCollection, bookingsCollection,
                   communityCollection, bookReq, slotReq, rateReq, voteReq, statusReq>>

CommunityFindUser(c) ==
    /\ postReq[c].pc = "findUser"
    /\ postReq' = [postReq EXCEPT ![c] =
           IF postReq[c].principal \notin DOMAIN usersCollection
           THEN [@ EXCEPT !.pc = "done", !.res = 404]
           ELSE [@ EXCEPT !.pc = "insert"]]
    /\ UNCHANGED <<now, reviewsCollection, applyReq, userReq, patchReq, reviewReq, slotAddReq,
                   usersCollection, trainerCollection, bookingsCollection,
                   communityCollection, bookReq, slotReq, rateReq, voteReq, statusReq>>

CommunityInsert(c) ==
    /\ postReq[c].pc = "insert"
    /\ communityCollection' =
           [id \in DOMAIN communityCollection \cup {c} |->
               IF id = c THEN NewPost(postReq[c].principal) ELSE communityCollection[id]]
    /\ postReq' = [postReq EXCEPT ![c] = [@ EXCEPT !.pc = "done", !.res = 201]]
    /\ UNCHANGED <<now, reviewsCollection, applyReq, userReq, patchReq, reviewReq, slotAddReq,
                   usersCollection, trainerCollection, bookingsCollection,
                   bookReq, slotReq, rateReq, voteReq, statusReq>>

(***************************************************************************)
(* POST /community/vote                                                    *)
(***************************************************************************)
\* A postId that is missing or no ObjectId.
InvalidPostId == -1

IdleVote ==
    [pc |-> "idle", res |-> 0, principal |-> NoValue, postId |-> InvalidPostId,
     voteType |-> NoValue, post |-> <<>>, votes |-> <<>>, likes |-> 0, dislikes |-> 0]

\* voteType as the body carries it; NoValue is null.
VoteTypes == {"like", "dislike", NoValue, "love"}

VotePost(v, principal, postId, voteType) ==
    /\ voteReq[v].pc = "idle"
    /\ voteReq' = [voteReq EXCEPT ![v] =
           IF postId = InvalidPostId \/ voteType \notin {"like", "dislike", NoValue}
           THEN [IdleVote EXCEPT !.pc = "done", !.res = 400, !.principal = principal]
           ELSE [IdleVote EXCEPT !.pc = "findPost", !.principal = principal,
                                 !.postId = postId, !.voteType = voteType]]
    /\ UNCHANGED <<now, reviewsCollection, applyReq, userReq, patchReq, reviewReq, slotAddReq,
                   usersCollection, trainerCollection, bookingsCollection,
                   communityCollection, bookReq, slotReq, rateReq, postReq, statusReq>>

\* The new vote pushed without the voter's entry being filtered out first.
AppendedVotes(votes, email, voteType) ==
    IF voteType = NoValue THEN votes
    ELSE Append(votes, [email |-> email, type |-> voteType])

\* The handler's votes: the voter's entry filtered out, the new vote pushed
\* unless voteType is null.
NewVotes(votes, email, voteType) ==
    LET kept == SelectSeq(votes, LAMBDA x : x.email # email)
    IN  IF voteType = NoValue THEN kept
        ELSE Append(kept, [email |-> email, type |-> voteType])

\* The count that forgets to look at the type.
CountAll(votes, type) == Len(votes)

\* votes.filter((v) => v.type === type).length
CountType(votes, type) == Len(SelectSeq(votes, LAMBDA x : x.type = type))

VoteFindPost(v) ==
    /\ voteReq[v].pc = "findPost"
    /\ voteReq' = [voteReq EXCEPT ![v] =
           IF voteReq[v].postId \notin DOMAIN communityCollection
           THEN [@ EXCEPT !.pc = "done", !.res = 404]
           ELSE LET votes == NewVotes(communityCollection[voteReq[v].postId].votes,
                                      voteReq[v].principal, voteReq[v].voteType)
                IN  [@ EXCEPT !.pc = "update",
                              !.post = communityCollection[voteReq[v].postId].votes,
                              !.votes = votes,
                              !.likes = CountType(votes, "like"),
                              !.dislikes = CountType(votes, "dislike")]]
    /\ UNCHANGED <<now, reviewsCollection, applyReq, userReq, patchReq, reviewReq, slotAddReq,
                   usersCollection, trainerCollection, bookingsCollection,
                   communityCollection, bookReq, slotReq, rateReq, postReq, statusReq>>

\* updateOne's $set of votes, likes and dislikes; modifiedCount is 0 when the
\* document already holds exactly these values.
VoteUpdate(v) ==
    /\ voteReq[v].pc = "update"
    /\ LET id == voteReq[v].postId
           set == IF id \in DOMAIN communityCollection
                  THEN [communityCollection EXCEPT ![id].votes = voteReq[v].votes,
                                                   ![id].likes = voteReq[v].likes,
                                                   ![id].dislikes = voteReq[v].dislikes]
                  ELSE communityCollection
       IN  /\ communityCollection' = set
           /\ voteReq' = [voteReq EXCEPT ![v] =
                  [@ EXCEPT !.pc = "done",
                            !.res = IF set = communityCollection THEN 500 ELSE 200,
                            !.post = <<>>, !.votes = <<>>, !.likes = 0, !.dislikes = 0]]
    /\ UNCHANGED <<now, reviewsCollection, applyReq, userReq, patchReq, reviewReq, slotAddReq,
                   usersCollection, trainerCollection, bookingsCollection,
                   bookReq, slotReq, rateReq, postReq, statusReq>>

(***************************************************************************)
(* PATCH /trainers/:id/status (behind verifyFBToken and verifyAdmin)       *)
(***************************************************************************)
IdleStatus ==
    [pc |-> "idle", res |-> 0, principal |-> NoValue, trainerId |-> NoValue,
     status |-> NoValue, email |-> NoValue, date |-> 0]

\* verifyAdmin: the requester's stored role is admin.
IsAdmin(principal) ==
    principal \in DOMAIN usersCollection /\ usersCollection[principal].role = "admin"

\* verifyAdmin and the head of the handler: a request that passes builds
\* updateDoc at once, its updatedAt read from the clock.  The bodies tried
\* carry no feedback.
StatusPatch(a, principal, trainerId, status) ==
    /\ statusReq[a].pc = "idle"
    /\ LET seen == [IdleStatus EXCEPT !.principal = principal, !.trainerId = trainerId,
                                      !.status = status]
       IN  IF ~IsAdmin(principal)
           THEN /\ statusReq' = [statusReq EXCEPT ![a] = [seen EXCEPT !.pc = "done", !.res = 403]]
                /\ UNCHANGED now
           ELSE IF trainerId = BadId \/ status \notin {"accepted", "rejected"}
           THEN /\ statusReq' = [statusReq EXCEPT ![a] = [seen EXCEPT !.pc = "done", !.res = 400]]
                /\ UNCHANGED now
           ELSE \E date \in Instants :
                    /\ now' = date
                    /\ statusReq' = [statusReq EXCEPT ![a] =
                           [seen EXCEPT !.pc = "findTrainer", !.date = date]]
    /\ UNCHANGED <<reviewsCollection, applyReq, userReq, patchReq, reviewReq, slotAddReq,
                   usersCollection, trainerCollection, bookingsCollection,
                   communityCollection, bookReq, slotReq, rateReq, voteReq, postReq>>

StatusFindTrainer(a) ==
    /\ statusReq[a].pc = "findTrainer"
    /\ statusReq' = [statusReq EXCEPT ![a] =
           IF statusReq[a].trainerId \in DOMAIN trainerCollection
           THEN [@ EXCEPT !.pc = "setRole",
                          !.email = trainerCollection[statusReq[a].trainerId].email]
           ELSE [@ EXCEPT !.pc = "setStatus"]]
    /\ UNCHANGED <<now, reviewsCollection, applyReq, userReq, patchReq, reviewReq, slotAddReq,
                   usersCollection, trainerCollection, bookingsCollection,
                   communityCollection, bookReq, slotReq, rateReq, voteReq, postReq>>

\* Every decision leaves the role trainer.
RoleAlwaysTrainer(status) == "trainer"

\* The role the handler writes for a decision.
RoleFor(status) == IF status = "accepted" THEN "trainer" ELSE "member"

StatusSetRole(a) ==
    /\ statusReq[a].pc = "setRole"
    /\ usersCollection' =
           IF statusReq[a].email \in DOMAIN usersCollection
           THEN [usersCollection EXCEPT ![statusReq[a].email].role = RoleFor(statusReq[a].status)]
           ELSE usersCollection
    /\ statusReq' = [statusReq EXCEPT ![a].pc = "setStatus"]
    /\ UNCHANGED <<now, reviewsCollection, applyReq, userReq, patchReq, reviewReq, slotAddReq,
                   trainerCollection, bookingsCollection, communityCollection,
                   bookReq, slotReq, rateReq, voteReq, postReq>>

\* trainerCollection.updateOne({ _id }, updateDoc): modifiedCount is 0 when
\* no document has that _id and when the document already holds this status
\* and this updatedAt; the handler answers 404 then.
StatusSetStatus(a) ==
    /\ statusReq[a].pc = "setStatus"
    /\ LET t == statusReq[a].trainerId
           set == IF t \in DOMAIN trainerCollection
                  THEN [trainerCollection EXCEPT ![t].status = statusReq[a].status,
                                                 ![t].updatedAt = statusReq[a].date]
                  ELSE trainerCollection
       IN  /\ trainerCollection' = set
           /\ statusReq' = [statusReq EXCEPT ![a] =
                  [@ EXCEPT !.pc = "done", !.date = 0,
                            !.res = IF set = trainerCollection THEN 404 ELSE 200]]
    /\ UNCHANGED <<now, reviewsCollection, applyReq, userReq, patchReq, reviewReq, slotAddReq,
                   usersCollection, bookingsCollection, communityCollection,
                   bookReq, slotReq, rateReq, voteReq, postReq>>

(***************************************************************************)
(* The booking workflow: an accepted trainer t1 with slots s1 (any         *)
(* capacity up to MaxCap) and s2 (capacity 1), a pending trainer t2 with   *)
(* slot s1, all created through POST /trainers and POST /trainers/slots.   *)
(***************************************************************************)
TrainersAtStart(k) ==
    [t \in {"t1", "t2"} |->
        IF t = "t1"
        THEN [NewTrainer(TrainerOneEmail, <<NewSlot("s1", k), NewSlot("s2", 1)>>, 0)
                 EXCEPT !.status = "accepted"]
        ELSE NewTrainer(TrainerTwoEmail, <<NewSlot("s1", 1)>>, 0)]

UsersAtStart ==
    [e \in Members \cup {TrainerOneEmail, TrainerTwoEmail, AdminEmail} |->
        [role |-> IF e = AdminEmail THEN "admin"
                  ELSE IF e = TrainerOneEmail THEN "trainer" ELSE "member"]]

Init ==
    /\ usersCollection = UsersAtStart
    /\ \E k \in 1..MaxCap : trainerCollection = TrainersAtStart(k)
    /\ bookingsCollection = {}
    /\ communityCollection = <<>>
    /\ bookReq = [p \in 1..NBook |-> IdleBook]
    /\ slotReq = [r \in 1..NSlotDel |-> IdleSlotReq]
    /\ rateReq = <<>>
    /\ voteReq = <<>>
    /\ postReq = <<>>
    /\ statusReq = <<>>
    /\ reviewsCollection = {}
    /\ applyReq = <<>>
    /\ userReq = <<>>
    /\ patchReq = <<>>
    /\ reviewReq = <<>>
    /\ slotAddReq = <<>>
    /\ now = 1

\* Self-bookings with every field right.
ValidBodies ==
    {b \in BookingBodies : FieldsWellFormed(b) /\ b.email # NoValue /\ b.trainerId # "t9"}

Next ==
    \/ \E p \in BookRequests, body \in ValidBodies : BookingPost(p, body.email, body)
    \/ \E p \in BookRequests : BookingAggregate(p)
    \/ \E p \in BookRequests : BookingInsert(p)
    \/ \E p \in BookRequests : BookingUpdateSlot(p)
    \/ \E p \in BookRequests : BookingRollback(p)
    \/ \E r \in SlotRequests : SlotDeleteFind(r, TrainerOneEmail, "s1")
    \/ \E r \in SlotRequests : SlotDeletePull(r)

Spec == Init /\ [][Next]_vars

SlotsOf(t) == {trainerCollection[t].slots[i] : i \in 1..Len(trainerCollection[t].slots)}

\* C1: for every slot of every trainer, in every state reachable by any
\* interleaving of concurrent POST /bookings requests,
\* bookingCount <= maxParticipants.
CapacityInvariant ==
    \A t \in DOMAIN trainerCollection : \A s \in SlotsOf(t) :
        s.bookingCount <= s.maxParticipants

\* The requests that booked slot s1 of the accepted trainer t1.
OnSlotOne == {p \in BookRequests : bookReq[p].trainerId = "t1" /\ bookReq[p].slotId = "s1"}

Succeeded(p) ==
    /\ bookReq[p].pc = "done" /\ bookReq[p].res = 201
    /\ \E b \in bookingsCollection : b._id = p

\* C2: when all N requests (N > k) have targeted the same empty slot of
\* capacity k on the accepted trainer and all have finished (the slot never
\* deleted), exactly k of them succeeded, their Booking stored, and every
\* other one was answered 409 Conflict.
ExactlyCapacitySucceed ==
    ( /\ OnSlotOne = BookRequests
      /\ \A p \in BookRequests : bookReq[p].pc = "done"
      /\ \A r \in SlotRequests : slotReq[r].pc = "idle"
      /\ NBook > trainerCollection["t1"].slots[1].maxParticipants )
    => /\ Cardinality({p \in BookRequests : Succeeded(p)})
            = trainerCollection["t1"].slots[1].maxParticipants
       /\ \A p \in BookRequests : ~Succeeded(p) => bookReq[p].res = 409

(***************************************************************************)
(* Compensation: member m1 books slots of t1 while the trainer of t1       *)
(* deletes slot s1.                                                        *)
(***************************************************************************)
\* The self-bookings of m1 on t1 with every field right.
CompensationBodies == {b \in ValidBodies : b.email = "m1" /\ b.trainerId = "t1"}

NextCompensation ==
    \/ \E p \in BookRequests, body \in CompensationBodies : BookingPost(p, body.email, body)
    \/ \E p \in BookRequests : BookingAggregate(p)
    \/ \E p \in BookRequests : BookingInsert(p)
    \/ \E p \in BookRequests : BookingUpdateSlot(p)
    \/ \E p \in BookRequests : BookingRollback(p)
    \/ \E r \in SlotRequests : SlotDeleteFind(r, TrainerOneEmail, "s1")
    \/ \E r \in SlotRequests : SlotDeletePull(r)

SpecCompensation == Init /\ [][NextCompensation]_vars

\* C3: if the trainer update that follows the Booking insert modified no
\* document (the request answers 500 after its rollback), then once the
\* request has finished the Booking it inserted is no longer stored.
CompensationRemovesBooking ==
    \A p \in BookRequests :
        bookReq[p].pc = "done" /\ bookReq[p].res = 500
            => ~(\E b \in bookingsCollection : b._id = p)

\* A request went through insert, found its slot deleted, and has finished.
CompensationWitness ==
    \E p \in BookRequests :
        /\ bookReq[p].pc = "done" /\ bookReq[p].res = 500
        /\ ~HasSlot(trainerCollection[bookReq[p].trainerId], bookReq[p].slotId)
        /\ \E r \in SlotRequests : slotReq[r].pc = "done" /\ slotReq[r].res = 200

(***************************************************************************)
(* Request validation: any principal, any body of ValidationBodies, sent   *)
(* to the latest revision; a request for another principal's account is    *)
(* sent to the handler of src/index.js as well.                            *)
(***************************************************************************)
InitValidation ==
    /\ usersCollection = UsersAtStart
    /\ \E k \in 1..MaxCap : trainerCollection = TrainersAtStart(k)
    /\ bookingsCollection = {}
    /\ communityCollection = <<>>
    /\ bookReq = [p \in 1..NValidate |-> IdleBook]
    /\ slotReq = <<>>
    /\ rateReq = <<>>
    /\ voteReq = <<>>
    /\ postReq = <<>>
    /\ statusReq = <<>>
    /\ reviewsCollection = {}
    /\ applyReq = <<>>
    /\ userReq = <<>>
    /\ patchReq = <<>>
    /\ reviewReq = <<>>
    /\ slotAddReq = <<>>
    /\ now = 1

\* The bodies sent: every e-mail, and every defect of BookingBodies, on the
\* trainer t1 and its slot s1.
ValidationBodies ==
    {b \in BookingBodies : b.trainerId \in {"t1", NoValue, BadId} /\ b.slotId \in {"s1", NoValue}}

NextValidation ==
    \/ \E p \in ValidationRequests, principal \in Members, body \in ValidationBodies :
           BookingPost(p, principal, body)
    \/ \E p \in ValidationRequests : BookingAggregate(p)
    \/ \E p \in ValidationRequests : BookingInsert(p)
    \/ \E p \in ValidationRequests : BookingUpdateSlot(p)
    \/ \E p \in ValidationRequests, principal \in Members, body \in ValidationBodies :
           principal # body.email /\ IndexBookingPost(p, principal, body)

SpecValidation == InitValidation /\ [][NextValidation]_vars

\* The request p has been received with a body email that is not the
\* authenticated principal's.
NotOwnAccount(p) == bookReq[p].pc # "idle" /\ bookReq[p].principal # bookReq[p].email

\* C4 as stated: a request whose body email differs from the principal's is
\* always answered 403 Forbidden, whatever its other fields are.
AlwaysForbidden ==
    \A p \in ValidationRequests :
        NotOwnAccount(p) => bookReq[p].pc = "done" /\ bookReq[p].res = 403

\* C4, amended: the step that receives a request whose body email differs
\* from the principal's ends it at once with 400 or 403 and changes neither
\* the bookings nor any trainer's slots, in the latest revision and in
\* src/index.js alike: the answer is 403 when every required field is
\* present and well-formed, and 400 when a required field is missing.
SelfBookingOnly ==
    [][\A p \in ValidationRequests :
          (bookReq[p].pc = "idle" /\ NotOwnAccount(p)')
              => /\ bookReq'[p].pc = "done"
                 /\ bookReq'[p].res \in {400, 403}
                 /\ (bookReq'[p].complete /\ bookReq'[p].wellFormed
                        => bookReq'[p].res = 403)
                 /\ (~bookReq'[p].complete => bookReq'[p].res = 400)
                 /\ UNCHANGED <<bookingsCollection, trainerCollection>>]_vars

\* Two bookings for another member's account have been refused with 403:
\* one with every field well-formed, and one whose fields are all there but
\* not all well-formed, which only src/index.js answers so.
SelfBookingWitness ==
    \E p, q \in ValidationRequests :
        /\ NotOwnAccount(p) /\ bookReq[p].complete /\ bookReq[p].wellFormed
        /\ bookReq[p].pc = "done" /\ bookReq[p].res = 403
        /\ NotOwnAccount(q) /\ bookReq[q].complete /\ ~bookReq[q].wellFormed
        /\ bookReq[q].pc = "done" /\ bookReq[q].res = 403

(***************************************************************************)
(* Ratings: the accepted trainer t1 has so far been rated by nobody, by m1 *)
(* (3) or by m1 (3) and m2 (5), one request after the other.               *)
(***************************************************************************)
RatedTrainersAtStart(n) ==
    [TrainersAtStart(1) EXCEPT
        !["t1"].ratings = SubSeq(<<[email |-> "m1", rating |-> 3],
                                   [email |-> "m2", rating |-> 5]>>, 1, n),
        !["t1"].rating = [num |-> <<0, 3, 4>>[n + 1], den |-> 1]]

InitRating ==
    /\ usersCollection = UsersAtStart
    /\ \E n \in {0, 1, 2} : trainerCollection = RatedTrainersAtStart(n)
    /\ bookingsCollection = {}
    /\ communityCollection = <<>>
    /\ bookReq = <<>>
    /\ slotReq = <<>>
    /\ rateReq = [r \in RateRequests |-> IdleRate]
    /\ voteReq = <<>>
    /\ postReq = <<>>
    /\ statusReq = <<>>
    /\ reviewsCollection = {}
    /\ applyReq = <<>>
    /\ userReq = <<>>
    /\ patchReq = <<>>
    /\ reviewReq = <<>>
    /\ slotAddReq = <<>>
    /\ now = 1

NextRating ==
    \/ \E r \in RateRequests, principal \in Raters, trainerId \in {"t1", "t2"},
          rating \in RatingValues : RatingPost(r, principal, trainerId, rating)
    \/ \E r \in RateRequests : RatingFindTrainer(r)
    \/ \E r \in RateRequests : RatingFindUser(r)
    \/ \E r \in RateRequests : RatingUpdate(r)

SpecRating == InitRating /\ [][NextRating]_vars

\* The rater's e-mail is in the trainer's stored ratings list.
RaterStored(t, email) ==
    \E i \in 1..Len(trainerCollection[t].ratings) :
        trainerCollection[t].ratings[i].email = email

(***************************************************************************)
(* Repeated ratings: the raters rate the accepted trainer t1, which nobody *)
(* has rated so far, each request with a rating in range.                  *)
(***************************************************************************)
NRerate == 3

RerateRequests == 1..NRerate

InitRerate ==
    /\ usersCollection = UsersAtStart
    /\ trainerCollection = TrainersAtStart(1)
    /\ bookingsCollection = {}
    /\ communityCollection = <<>>
    /\ bookReq = <<>>
    /\ slotReq = <<>>
    /\ rateReq = [r \in RerateRequests |-> IdleRate]
    /\ voteReq = <<>>
    /\ postReq = <<>>
    /\ statusReq = <<>>
    /\ reviewsCollection = {}
    /\ applyReq = <<>>
    /\ userReq = <<>>
    /\ patchReq = <<>>
    /\ reviewReq = <<>>
    /\ slotAddReq = <<>>
    /\ now = 1

NextRerate ==
    \/ \E r \in RerateRequests, principal \in Raters : RatingPost(r, principal, "t1", [type |-> "number", value |-> 3])
    \/ \E r \in RerateRequests : RatingFindTrainer(r)
    \/ \E r \in RerateRequests : RatingFindUser(r)
    \/ \E r \in RerateRequests : RatingUpdate(r)

SpecRerate == InitRerate /\ [][NextRerate]_vars

\* C5: for a given (trainer, rater) pair only the first rating request
\* succeeds and every later one of that rater on that trainer is answered
\* 409 Conflict: of two finished requests of one rater on one trainer, when
\* one succeeded the other was answered 409; and the step that answers a
\* request of a rater of whom a request on that trainer has succeeded
\* answers 409 and leaves the trainer's ratings list unchanged.
OnlyFirstRatingSucceeds ==
    /\ [](\A r, q \in RerateRequests :
             (/\ r # q /\ rateReq[r].pc = "done" /\ rateReq[q].pc = "done"
              /\ rateReq[r].principal = rateReq[q].principal
              /\ rateReq[r].trainerId = rateReq[q].trainerId
              /\ rateReq[q].res = 200)
                 => rateReq[r].res = 409)
    /\ [][\A r, q \in RerateRequests :
             (/\ r # q /\ rateReq[q].pc = "done" /\ rateReq[q].res = 200
              /\ rateReq[r].pc = "findTrainer" /\ rateReq'[r].pc # "findTrainer"
              /\ rateReq[r].principal = rateReq[q].principal
              /\ rateReq[r].trainerId = rateReq[q].trainerId)
                 => /\ rateReq'[r].pc = "done" /\ rateReq'[r].res = 409
                    /\ UNCHANGED trainerCollection]_vars

RECURSIVE TotalOf(_, _)
TotalOf(ratings, i) == IF i = 0 THEN 0 ELSE ratings[i].rating + TotalOf(ratings, i - 1)

\* C6: in every reachable state a trainer's rating is the arithmetic mean of
\* the values in its ratings list (0 for the empty list); with the values
\* 3, 5, 4 stored the rating is 4.
RatingIsMean ==
    \A t \in DOMAIN trainerCollection :
        LET doc == trainerCollection[t]
        IN  /\ doc.rating.den > 0
            /\ IF doc.ratings = <<>> THEN doc.rating.num = 0
               ELSE doc.rating.num * Len(doc.ratings)
                        = TotalOf(doc.ratings, Len(doc.ratings)) * doc.rating.den
            /\ ([i \in 1..Len(doc.ratings) |-> doc.ratings[i].rating] = <<3, 5, 4>>
                    => doc.rating = [num |-> 4, den |-> 1])

\* Three distinct raters have rated 3, 5 and 4, the last two through requests
\* of this run.
RatingIsMeanWitness ==
    /\ trainerCollection["t1"].ratings =
           <<[email |-> "m1", rating |-> 3], [email |-> "m2", rating |-> 5],
             [email |-> "m3", rating |-> 4]>>
    /\ trainerCollection["t1"].rating = [num |-> 4, den |-> 1]
    /\ \A r \in RateRequests : rateReq[r].pc = "done" /\ rateReq[r].res = 200

\* C7: if two distinct raters' requests on the same trainer have both been
\* answered with success, both raters' ratings are in the trainer's list.
NoLostRating ==
    \A r, q \in RateRequests :
        ( /\ r # q
          /\ rateReq[r].pc = "done" /\ rateReq[r].res = 200
          /\ rateReq[q].pc = "done" /\ rateReq[q].res = 200
          /\ rateReq[r].trainerId = rateReq[q].trainerId
          /\ rateReq[r].principal # rateReq[q].principal )
        => /\ RaterStored(rateReq[r].trainerId, rateReq[r].principal)
           /\ RaterStored(rateReq[r].trainerId, rateReq[q].principal)

(***************************************************************************)
(* The forum: post 0 stored without votes, members voting, posts created.  *)
(***************************************************************************)
InitVote ==
    /\ usersCollection = UsersAtStart
    /\ trainerCollection = TrainersAtStart(1)
    /\ bookingsCollection = {}
    /\ communityCollection = [id \in {0} |-> NewPost("m1")]
    /\ bookReq = <<>>
    /\ slotReq = <<>>
    /\ rateReq = <<>>
    /\ voteReq = [v \in VoteRequests |-> IdleVote]
    /\ postReq = [c \in PostRequests |-> IdlePost]
    /\ statusReq = <<>>
    /\ reviewsCollection = {}
    /\ applyReq = <<>>
    /\ userReq = <<>>
    /\ patchReq = <<>>
    /\ reviewReq = <<>>
    /\ slotAddReq = <<>>
    /\ now = 1

\* The vote bodies tried: any voteType on post 0 or without a usable postId,
\* a like on post 1, which exists once request 1 has created it.
VoteBodies ==
    [postId : {InvalidPostId, 0}, voteType : VoteTypes]
        \cup {[postId |-> 1, voteType |-> "like"]}

NextVote ==
    \/ \E v \in VoteRequests, principal \in Members, body \in VoteBodies :
          VotePost(v, principal, body.postId, body.voteType)
    \/ \E v \in VoteRequests : VoteFindPost(v)
    \/ \E v \in VoteRequests : VoteUpdate(v)
    \/ \E c \in PostRequests, complete \in BOOLEAN : CommunityPost(c, "m2", complete)
    \/ \E c \in PostRequests : CommunityFindUser(c)
    \/ \E c \in PostRequests : CommunityInsert(c)

SpecVote == InitVote /\ [][NextVote]_vars

\* The type of the vote the voter holds in a votes list, NoValue for none.
HeldBy(votes, email) ==
    IF \E i \in 1..Len(votes) : votes[i].email = email
    THEN votes[CHOOSE i \in 1..Len(votes) : votes[i].email = email].type
    ELSE NoValue

EntriesOf(votes, email) == Cardinality({i \in 1..Len(votes) : votes[i].email = email})

\* Request v writes its votes to a post that still holds the votes it read.
VoteWrites(v) ==
    /\ voteReq[v].pc = "update" /\ voteReq'[v].pc = "done"
    /\ voteReq[v].postId \in DOMAIN communityCollection
    /\ communityCollection[voteReq[v].postId].votes = voteReq[v].post

\* C8: vote toggle: casting the vote type the voter already holds removes
\* the voter's vote and decrements the matching counter by 1 (a like cast
\* while holding the only like gives likes = 0, dislikes = 0).
SameVoteTogglesOff ==
    [][\A v \in VoteRequests :
          LET before == communityCollection[voteReq[v].postId]
              after == communityCollection'[voteReq[v].postId]
              held == HeldBy(before.votes, voteReq[v].principal)
          IN  (VoteWrites(v) /\ voteReq[v].voteType # NoValue /\ held = voteReq[v].voteType)
              => /\ HeldBy(after.votes, voteReq[v].principal) = NoValue
                 /\ after.likes = before.likes - (IF held = "like" THEN 1 ELSE 0)
                 /\ after.dislikes = before.dislikes - (IF held = "dislike" THEN 1 ELSE 0)]_vars

\* C9: for every forum post, in every reachable state, likes is the number
\* of like entries of its votes list and dislikes the number of dislike
\* entries.
VoteCountsMatch ==
    \A id \in DOMAIN communityCollection :
        LET post == communityCollection[id]
        IN  /\ post.likes = Cardinality({i \in 1..Len(post.votes) : post.votes[i].type = "like"})
            /\ post.dislikes =
                   Cardinality({i \in 1..Len(post.votes) : post.votes[i].type = "dislike"})

\* Post 0 holds a like and a dislike of two voters, and a post was created.
VoteCountsWitness ==
    /\ communityCollection[0].likes = 1 /\ communityCollection[0].dislikes = 1
    /\ Len(communityCollection[0].votes) = 2
    /\ 1 \in DOMAIN communityCollection

(***************************************************************************)
(* Trainer approval: t1 accepted (its principal a trainer), t2 pending     *)
(* (its principal a member, or not registered).                            *)
(***************************************************************************)
InitLifecycle ==
    /\ \E registered \in BOOLEAN :
           usersCollection =
               [e \in (DOMAIN UsersAtStart) \ (IF registered THEN {} ELSE {TrainerTwoEmail}) |->
                   UsersAtStart[e]]
    /\ trainerCollection = TrainersAtStart(1)
    /\ bookingsCollection = {}
    /\ communityCollection = <<>>
    /\ bookReq = <<>>
    /\ slotReq = <<>>
    /\ rateReq = <<>>
    /\ voteReq = <<>>
    /\ postReq = <<>>
    /\ statusReq = [a \in StatusRequests |-> IdleStatus]
    /\ reviewsCollection = {}
    /\ applyReq = <<>>
    /\ userReq = <<>>
    /\ patchReq = <<>>
    /\ reviewReq = <<>>
    /\ slotAddReq = <<>>
    /\ now = 1

NextLifecycle ==
    \/ \E a \in StatusRequests, principal \in {AdminEmail, "m1"},
          trainerId \in ObjectIds \cup {BadId}, status \in {"accepted", "rejected", "pending"} :
          StatusPatch(a, principal, trainerId, status)
    \/ \E a \in StatusRequests : StatusFindTrainer(a)
    \/ \E a \in StatusRequests : StatusSetRole(a)
    \/ \E a \in StatusRequests : StatusSetStatus(a)

SpecLifecycle == InitLifecycle /\ [][NextLifecycle]_vars

\* No other status request has acted on the trainer of request a.
AloneOnTrainer(a) ==
    \A b \in StatusRequests \ {a} :
        \/ statusReq[b].pc = "idle"
        \/ statusReq[b].trainerId # statusReq[a].trainerId
        \/ statusReq[b].pc = "done" /\ statusReq[b].res \in {400, 403}

\* C10: when an admin's status request on an existing trainer has made its
\* writes (no other decision on that trainer being made; it was answered
\* 200, or 404 when its write found the decision and its date stored
\* already), the trainer has the requested status and the linked principal's
\* role is trainer for accepted and member for rejected.
DecisionSetsRole ==
    \A a \in StatusRequests :
        (/\ statusReq[a].pc = "done" /\ statusReq[a].res \in {200, 404}
         /\ statusReq[a].trainerId \in DOMAIN trainerCollection /\ AloneOnTrainer(a))
        => LET doc == trainerCollection[statusReq[a].trainerId]
           IN  /\ doc.status = statusReq[a].status
               /\ doc.email \in DOMAIN usersCollection
                    => /\ statusReq[a].status = "accepted"
                            => usersCollection[doc.email].role = "trainer"
                       /\ statusReq[a].status = "rejected"
                            => usersCollection[doc.email].role = "member"

\* The pending trainer t2 was accepted and its principal, a member before,
\* is a trainer; no other decision was made on t2.
DecisionSetsRoleWitness ==
    \E a \in StatusRequests :
        /\ statusReq[a].pc = "done" /\ statusReq[a].res = 200 /\ AloneOnTrainer(a)
        /\ statusReq[a].trainerId = "t2" /\ statusReq[a].status = "accepted"
        /\ trainerCollection["t2"].status = "accepted"
        /\ TrainerTwoEmail \in DOMAIN usersCollection
        /\ usersCollection[TrainerTwoEmail].role = "trainer"

\* C11: a trainer's status is terminal once decided: no step changes the
\* status of a trainer that is accepted or rejected (the only transitions
\* are pending -> accepted and pending -> rejected).
StatusIsTerminal ==
    [][\A t \in DOMAIN trainerCollection :
          trainerCollection[t].status \in {"accepted", "rejected"}
              => /\ t \in DOMAIN trainerCollection'
                 /\ trainerCollection'[t].status = trainerCollection[t].status]_vars

(***************************************************************************)
(* POST /trainers (behind verifyFBToken): the trainer application.  The    *)
(* document inserted by request q gets the fresh _id InsertedId(q).        *)
(***************************************************************************)
NApply == 2

ApplyRequests == 1..NApply

NewTrainerIds == <<"t3", "t4", "t5", "t6">>

\* result.insertedId
InsertedId(q) == NewTrainerIds[q]

IdleApply ==
    [pc |-> "idle", res |-> 0, principal |-> NoValue, email |-> NoValue, slots |-> <<>>,
     date |-> 0]

\* slots as the body carries it: missing, an array, or something else.
ApplicationSlots ==
    { [type |-> "undefined", value |-> <<>>], [type |-> "string", value |-> <<>>],
      [type |-> "array", value |-> <<NewSlot("s1", 1)>>] }

\* The application bodies tried; complete says that name, specialization,
\* description and photoURL are all there.
ApplicationBodies ==
    [email : {"m1", TrainerTwoEmail, NoValue}, complete : BOOLEAN, slots : ApplicationSlots]

TrainerPost(q, principal, body) ==
    /\ applyReq[q].pc = "idle"
    /\ LET seen == [IdleApply EXCEPT !.principal = principal, !.email = body.email]
       IN  applyReq' = [applyReq EXCEPT ![q] =
               IF body.email = NoValue \/ ~body.complete
               THEN [seen EXCEPT !.pc = "done", !.res = 400]
               ELSE IF body.slots.type \notin {"undefined", "array"}
               THEN [seen EXCEPT !.pc = "done", !.res = 400]
               ELSE IF principal # body.email
               THEN [seen EXCEPT !.pc = "done", !.res = 403]
               ELSE [seen EXCEPT !.pc = "findExisting", !.slots = body.slots.value]]
    /\ UNCHANGED <<now, usersCollection, trainerCollection, bookingsCollection,
                   communityCollection, reviewsCollection, bookReq, slotReq, rateReq,
                   voteReq, postReq, statusReq, userReq, patchReq, reviewReq, slotAddReq>>

\* trainerCollection.findOne({ email }); when there is none the handler
\* builds newTrainerApplication, its updatedAt read from the clock.
TrainerFindExisting(q) ==
    /\ applyReq[q].pc = "findExisting"
    /\ IF \E t \in DOMAIN trainerCollection : trainerCollection[t].email = applyReq[q].email
       THEN /\ applyReq' = [applyReq EXCEPT ![q].pc = "done", ![q].res = 409]
            /\ UNCHANGED now
       ELSE \E date \in Instants :
                /\ now' = date
                /\ applyReq' = [applyReq EXCEPT ![q].pc = "insert", ![q].date = date]
    /\ UNCHANGED <<usersCollection, trainerCollection, bookingsCollection,
                   communityCollection, reviewsCollection, bookReq, slotReq, rateReq,
                   voteReq, postReq, statusReq, userReq, patchReq, reviewReq, slotAddReq>>

\* The collection with one more document under the given _id.
WithTrainer(id, doc) ==
    [t \in DOMAIN trainerCollection \cup {id} |->
        IF t = id THEN doc ELSE trainerCollection[t]]

\* trainerCollection.insertOne(newTrainerApplication)
TrainerInsert(q) ==
    /\ applyReq[q].pc = "insert"
    /\ trainerCollection' =
           WithTrainer(InsertedId(q),
                       NewTrainer(applyReq[q].email, applyReq[q].slots, applyReq[q].date))
    /\ applyReq' = [applyReq EXCEPT ![q] = [@ EXCEPT !.pc = "done", !.res = 201, !.date = 0]]
    /\ UNCHANGED <<now, usersCollection, bookingsCollection,
                   communityCollection, reviewsCollection, bookReq, slotReq, rateReq,
                   voteReq, postReq, statusReq, userReq, patchReq, reviewReq, slotAddReq>>

(***************************************************************************)
(* POST /trainers of the revision src/index.js: no token is asked for, and *)
(* the body is stored with role trainer and status accepted on top of it.  *)
(***************************************************************************)
\* The bodies tried: email and name present or not, any status of its own,
\* no slot or one open slot s1.
AddTrainerBodies ==
    [email : {TrainerOneEmail, TrainerTwoEmail, NoValue}, name : {"name", NoValue},
     status : {NoValue, "pending"}, slots : {<<>>, <<NewSlot("s1", 1)>>}]

\* newTrainer: the body's fields, then role, status and the dates over them;
\* ratings the body does not carry read as empty.
AddedTrainer(trainerData, date) ==
    [NewTrainer(trainerData.email, trainerData.slots, date) EXCEPT !.status = "accepted"]

\* The request arrives: a body without email or name is answered 400; for
\* the others the handler builds newTrainer, its dates read from the clock,
\* and waits for insertOne.
AddTrainer(q, trainerData) ==
    /\ applyReq[q].pc = "idle"
    /\ LET seen == [IdleApply EXCEPT !.email = trainerData.email]
       IN  IF trainerData.email = NoValue \/ trainerData.name = NoValue
           THEN /\ applyReq' = [applyReq EXCEPT ![q] = [seen EXCEPT !.pc = "done", !.res = 400]]
                /\ UNCHANGED now
           ELSE \E date \in Instants :
                    /\ now' = date
                    /\ applyReq' = [applyReq EXCEPT ![q] =
                           [seen EXCEPT !.pc = "insertOne", !.slots = trainerData.slots,
                                        !.date = date]]
    /\ UNCHANGED <<usersCollection, trainerCollection, bookingsCollection,
                   communityCollection, reviewsCollection, bookReq, slotReq, rateReq,
                   voteReq, postReq, statusReq, userReq, patchReq, reviewReq, slotAddReq>>

\* trainerCollection.insertOne(newTrainer): the document built at the arrival
\* is stored, with the dates read then.
AddTrainerInsert(q) ==
    /\ applyReq[q].pc = "insertOne"
    /\ trainerCollection' =
           WithTrainer(InsertedId(q),
                       AddedTrainer([email |-> applyReq[q].email, slots |-> applyReq[q].slots],
                                    applyReq[q].date))
    /\ applyReq' = [applyReq EXCEPT ![q] = [@ EXCEPT !.pc = "done", !.res = 201, !.date = 0]]
    /\ UNCHANGED <<now, usersCollection, bookingsCollection,
                   communityCollection, reviewsCollection, bookReq, slotReq, rateReq,
                   voteReq, postReq, statusReq, userReq, patchReq, reviewReq, slotAddReq>>

(***************************************************************************)
(* Bookings and ratings while an admin decides: t1 accepted, t2 pending,   *)
(* one request of each kind at a time per request slot.                    *)
(***************************************************************************)
NInterleaved == 1

InterleavedRequests == 1..NInterleaved

InitInterleaved ==
    /\ usersCollection = UsersAtStart
    /\ \E k \in 1..MaxCap : trainerCollection = TrainersAtStart(k)
    /\ bookingsCollection = {}
    /\ communityCollection = <<>>
    /\ bookReq = [p \in InterleavedRequests |-> IdleBook]
    /\ slotReq = <<>>
    /\ rateReq = [r \in InterleavedRequests |-> IdleRate]
    /\ voteReq = <<>>
    /\ postReq = <<>>
    /\ statusReq = [a \in InterleavedRequests |-> IdleStatus]
    /\ reviewsCollection = {}
    /\ applyReq = <<>>
    /\ userReq = <<>>
    /\ patchReq = <<>>
    /\ reviewReq = <<>>
    /\ slotAddReq = <<>>
    /\ now = 1

NextInterleaved ==
    \/ \E p \in InterleavedRequests, body \in ValidBodies : BookingPost(p, body.email, body)
    \/ \E p \in InterleavedRequests : BookingAggregate(p)
    \/ \E p \in InterleavedRequests : BookingInsert(p)
    \/ \E p \in InterleavedRequests : BookingUpdateSlot(p)
    \/ \E r \in InterleavedRequests, principal \in Members, trainerId \in {"t1", "t2"} :
          RatingPost(r, principal, trainerId, [type |-> "number", value |-> 4])
    \/ \E r \in InterleavedRequests : RatingFindTrainer(r)
    \/ \E r \in InterleavedRequests : RatingFindUser(r)
    \/ \E r \in InterleavedRequests : RatingUpdate(r)
    \/ \E a \in InterleavedRequests, trainerId \in {"t1", "t2"},
          status \in {"accepted", "rejected"} : StatusPatch(a, AdminEmail, trainerId, status)
    \/ \E a \in InterleavedRequests : StatusFindTrainer(a)
    \/ \E a \in InterleavedRequests : StatusSetRole(a)
    \/ \E a \in InterleavedRequests : StatusSetStatus(a)

SpecInterleaved == InitInterleaved /\ [][NextInterleaved]_vars

\* C13: a trainer whose status is not accepted receives no booking and no
\* rating: no step stores a Booking for it, changes one of its slots or
\* changes its ratings list, whatever status decisions are interleaved with
\* the booking and rating requests.
NotAcceptedUntouched ==
    [][\A t \in DOMAIN trainerCollection :
          trainerCollection[t].status # "accepted"
          => /\ trainerCollection'[t].slots = trainerCollection[t].slots
             /\ trainerCollection'[t].ratings = trainerCollection[t].ratings
             /\ \A b \in bookingsCollection' \ bookingsCollection : b.trainerId # t]_vars

(***************************************************************************)
(* POST /users, PATCH /users, POST /register: behind no middleware.  The   *)
(* requester is whoever sent the request (NoValue: nobody signed in); the  *)
(* handlers never learn it.                                                *)
(***************************************************************************)
NAccount == 1

AccountRequests == 1..NAccount

IdleUser ==
    [pc |-> "idle", res |-> 0, op |-> NoValue, requester |-> NoValue,
     email |-> NoValue, role |-> NoValue]

\* The bodies tried: the account written to, the role asked for (NoValue:
\* no role field), and whether any other profile field is there.
UserBodies ==
    [email : {"m1", AdminEmail, "m3", NoValue},
     role : {NoValue, "admin", "trainer", "member"},
     profile : BOOLEAN]

\* updateOne({ email }, { $set: fields }, { upsert: true })
UpsertRole(email, role) ==
    [e \in DOMAIN usersCollection \cup {email} |->
        IF e = email THEN [role |-> role] ELSE usersCollection[e]]

UsersPost(u, requester, body) ==
    /\ userReq[u].pc = "idle"
    /\ LET role == IF body.role = NoValue THEN "member" ELSE body.role
           seen == [IdleUser EXCEPT !.op = "POST /users", !.requester = requester,
                                    !.email = body.email, !.role = body.role]
       IN  IF body.email = NoValue
           THEN /\ userReq' = [userReq EXCEPT ![u] = [seen EXCEPT !.pc = "done", !.res = 400]]
                /\ UNCHANGED usersCollection
           ELSE /\ usersCollection' = UpsertRole(body.email, role)
                /\ userReq' = [userReq EXCEPT ![u] = [seen EXCEPT !.pc = "done", !.res = 200]]
    /\ UNCHANGED <<now, trainerCollection, bookingsCollection, communityCollection,
                   reviewsCollection, bookReq, slotReq, rateReq, voteReq, postReq,
                   statusReq, applyReq, patchReq, reviewReq, slotAddReq>>

UsersPatch(u, requester, body) ==
    /\ userReq[u].pc = "idle"
    /\ LET seen == [IdleUser EXCEPT !.op = "PATCH /users", !.requester = requester,
                                    !.email = body.email, !.role = body.role]
       IN  IF body.email = NoValue \/ (body.role = NoValue /\ ~body.profile)
           THEN /\ userReq' = [userReq EXCEPT ![u] = [seen EXCEPT !.pc = "done", !.res = 400]]
                /\ UNCHANGED usersCollection
           ELSE IF body.email \notin DOMAIN usersCollection
           THEN /\ userReq' = [userReq EXCEPT ![u] = [seen EXCEPT !.pc = "done", !.res = 404]]
                /\ UNCHANGED usersCollection
           ELSE /\ usersCollection' =
                       IF body.role = NoValue THEN usersCollection
                       ELSE [usersCollection EXCEPT ![body.email].role = body.role]
                /\ userReq' = [userReq EXCEPT ![u] = [seen EXCEPT !.pc = "done", !.res = 200]]
    /\ UNCHANGED <<now, trainerCollection, bookingsCollection, communityCollection,
                   reviewsCollection, bookReq, slotReq, rateReq, voteReq, postReq,
                   statusReq, applyReq, patchReq, reviewReq, slotAddReq>>

Register(u, requester, body) ==
    /\ userReq[u].pc = "idle"
    /\ LET seen == [IdleUser EXCEPT !.op = "POST /register", !.requester = requester,
                                    !.email = body.email]
       IN  IF body.email = NoValue
           THEN /\ userReq' = [userReq EXCEPT ![u] = [seen EXCEPT !.pc = "done", !.res = 400]]
                /\ UNCHANGED usersCollection
           ELSE /\ usersCollection' = UpsertRole(body.email, "member")
                /\ userReq' = [userReq EXCEPT ![u] = [seen EXCEPT !.pc = "findUser"]]
    /\ UNCHANGED <<now, trainerCollection, bookingsCollection, communityCollection,
                   reviewsCollection, bookReq, slotReq, rateReq, voteReq, postReq,
                   statusReq, applyReq, patchReq, reviewReq, slotAddReq>>

\* usersCollection.findOne({ email }): the role signed into the token.
RegisterFindUser(u) ==
    /\ userReq[u].pc = "findUser"
    /\ userReq' = [userReq EXCEPT ![u] =
           [@ EXCEPT !.pc = "done", !.res = 200, !.role = usersCollection[userReq[u].email].role]]
    /\ UNCHANGED <<now, usersCollection, trainerCollection, bookingsCollection,
                   communityCollection, reviewsCollection, bookReq, slotReq, rateReq,
                   voteReq, postReq, statusReq, applyReq, patchReq, reviewReq, slotAddReq>>

(***************************************************************************)
(* Accounts: applications, admin decisions and the user routes together.   *)
(***************************************************************************)
InitAccounts ==
    /\ usersCollection = UsersAtStart
    /\ trainerCollection = TrainersAtStart(1)
    /\ bookingsCollection = {}
    /\ communityCollection = <<>>
    /\ bookReq = <<>>
    /\ slotReq = <<>>
    /\ rateReq = <<>>
    /\ voteReq = <<>>
    /\ postReq = <<>>
    /\ statusReq = [a \in AccountRequests |-> IdleStatus]
    /\ reviewsCollection = {}
    /\ applyReq = [q \in AccountRequests |-> IdleApply]
    /\ userReq = [u \in AccountRequests |-> IdleUser]
    /\ patchReq = <<>>
    /\ reviewReq = <<>>
    /\ slotAddReq = <<>>
    /\ now = 1

NextAccounts ==
    \/ \E q \in AccountRequests, body \in ApplicationBodies : TrainerPost(q, "m1", body)
    \/ \E q \in AccountRequests : TrainerFindExisting(q)
    \/ \E q \in AccountRequests : TrainerInsert(q)
    \/ \E a \in AccountRequests, principal \in {AdminEmail, "m1"},
          trainerId \in {"t2", InsertedId(1)}, status \in {"accepted", "rejected"} :
          StatusPatch(a, principal, trainerId, status)
    \/ \E a \in AccountRequests : StatusFindTrainer(a)
    \/ \E a \in AccountRequests : StatusSetRole(a)
    \/ \E a \in AccountRequests : StatusSetStatus(a)
    \/ \E u \in AccountRequests, requester \in {"m1", NoValue}, body \in UserBodies :
          UsersPost(u, requester, body)
    \/ \E u \in AccountRequests, requester \in {"m1", NoValue}, body \in UserBodies :
          UsersPatch(u, requester, body)
    \/ \E u \in AccountRequests, requester \in {"m1", NoValue}, body \in UserBodies :
          Register(u, requester, body)
    \/ \E u \in AccountRequests : RegisterFindUser(u)

SpecAccounts == InitAccounts /\ [][NextAccounts]_vars

\* The role stored for an e-mail, NoValue when no user document has it.
StoredRole(users, email) == IF email \in DOMAIN users THEN users[email].role ELSE NoValue

\* C14: every step that changes the role stored for a principal is either the
\* role write of a status request that passed verifyAdmin, on the trainer of
\* that principal, or that principal's own registration setting it to member;
\* in particular no request of a requester who is not signed in or is no
\* admin sets a role to admin or trainer.
RoleChangesOnlyByAdmin ==
    [][\A e \in (DOMAIN usersCollection) \cup (DOMAIN usersCollection') :
          StoredRole(usersCollection', e) # StoredRole(usersCollection, e)
          => \/ \E a \in DOMAIN statusReq :
                    /\ statusReq[a].pc = "setRole" /\ statusReq'[a].pc = "setStatus"
                    /\ statusReq[a].email = e
             \/ \E u \in DOMAIN userReq :
                    /\ userReq[u].pc = "idle" /\ userReq'[u].op = "POST /register"
                    /\ userReq'[u].email = e /\ userReq'[u].requester = e
                    /\ StoredRole(usersCollection', e) = "member"]_vars

(***************************************************************************)
(* PATCH /bookings/:id (behind verifyFBToken).  The token carries the      *)
(* requester's email and, when the identity provider put one in, a role.   *)
(***************************************************************************)
NPatch == 2

PatchRequests == 1..NPatch

\* An id that is no ObjectId.
BadBookingId == -1

IdlePatch ==
    [pc |-> "idle", res |-> 0, principal |-> NoValue, tokenRole |-> NoValue,
     id |-> BadBookingId, transactionId |-> NoValue, paymentStatus |-> NoValue]

\* The tokens tried: two members without a role claim, the admin with one.
PatchTokens ==
    { [email |-> "m1", role |-> NoValue], [email |-> "m2", role |-> NoValue],
      [email |-> AdminEmail, role |-> "admin"] }

\* The bodies tried: no field, a transactionId, or both fields.
PatchBodies ==
    { [transactionId |-> NoValue, paymentStatus |-> NoValue],
      [transactionId |-> "tx2", paymentStatus |-> NoValue],
      [transactionId |-> "tx2", paymentStatus |-> "paid"] }

BookingPatch(h, token, id, body) ==
    /\ patchReq[h].pc = "idle"
    /\ LET seen == [IdlePatch EXCEPT !.principal = token.email, !.tokenRole = token.role,
                                     !.id = id, !.transactionId = body.transactionId,
                                     !.paymentStatus = body.paymentStatus]
       IN  patchReq' = [patchReq EXCEPT ![h] =
               IF id = BadBookingId THEN [seen EXCEPT !.pc = "done", !.res = 400]
               ELSE [seen EXCEPT !.pc = "findBooking"]]
    /\ UNCHANGED <<now, usersCollection, trainerCollection, bookingsCollection,
                   communityCollection, reviewsCollection, bookReq, slotReq, rateReq,
                   voteReq, postReq, statusReq, applyReq, userReq, reviewReq, slotAddReq>>

\* Every requester may patch every booking.
AnyoneMayPatch(booking, principal, tokenRole) == TRUE

\* The negation of the handler's 403 condition.
MayPatch(booking, principal, tokenRole) ==
    booking.email = principal \/ tokenRole = "admin"

PatchFindBooking(h) ==
    /\ patchReq[h].pc = "findBooking"
    /\ LET found == {b \in bookingsCollection : b._id = patchReq[h].id}
       IN  patchReq' = [patchReq EXCEPT ![h] =
               IF found = {} THEN [@ EXCEPT !.pc = "done", !.res = 404]
               ELSE IF \E b \in found :
                          ~MayPatch(b, patchReq[h].principal, patchReq[h].tokenRole)
               THEN [@ EXCEPT !.pc = "done", !.res = 403]
               ELSE IF patchReq[h].transactionId = NoValue
                       /\ patchReq[h].paymentStatus = NoValue
               THEN [@ EXCEPT !.pc = "done", !.res = 400]
               ELSE [@ EXCEPT !.pc = "update"]]
    /\ UNCHANGED <<now, usersCollection, trainerCollection, bookingsCollection,
                   communityCollection, reviewsCollection, bookReq, slotReq, rateReq,
                   voteReq, postReq, statusReq, applyReq, userReq, reviewReq, slotAddReq>>

\* $set: updateFields, which holds the fields of the body that are truthy.
PatchedBooking(booking, transactionId, paymentStatus) ==
    [booking EXCEPT
        !.transactionId = IF transactionId = NoValue THEN @ ELSE transactionId,
        !.paymentStatus = IF paymentStatus = NoValue THEN @ ELSE paymentStatus]

PatchUpdate(h) ==
    /\ patchReq[h].pc = "update"
    /\ bookingsCollection' =
           { IF b._id = patchReq[h].id
             THEN PatchedBooking(b, patchReq[h].transactionId, patchReq[h].paymentStatus)
             ELSE b : b \in bookingsCollection }
    /\ patchReq' = [patchReq EXCEPT ![h] =
           [@ EXCEPT !.pc = "done",
                     !.res = IF \E b \in bookingsCollection : b._id = patchReq[h].id
                             THEN 200 ELSE 404]]
    /\ UNCHANGED <<now, usersCollection, trainerCollection,
                   communityCollection, reviewsCollection, bookReq, slotReq, rateReq,
                   voteReq, postReq, statusReq, applyReq, userReq, reviewReq, slotAddReq>>

(***************************************************************************)
(* Patching: booking 0 of m1 is stored; booking 1 of m2 was inserted by    *)
(* request 1, whose slot update then found slot s1 of t1 deleted, so that  *)
(* its rollback is still to come.                                          *)
(***************************************************************************)
StoredBooking(id, email) ==
    [_id |-> id, email |-> email, trainerId |-> "t1", slotId |-> "s1",
     price |-> GoodPrice.value, transactionId |-> "tx", paymentStatus |-> "Completed",
     hasReviewed |-> FALSE]

InitPatch ==
    /\ usersCollection = UsersAtStart
    /\ trainerCollection = [TrainersAtStart(1) EXCEPT !["t1"].slots = <<NewSlot("s2", 1)>>]
    /\ bookingsCollection = {StoredBooking(0, "m1"), StoredBooking(1, "m2")}
    /\ communityCollection = <<>>
    /\ bookReq = [p \in {1} |->
           [IdleBook EXCEPT !.pc = "rollback", !.principal = "m2", !.email = "m2",
                            !.trainerId = "t1", !.slotId = "s1",
                            !.complete = TRUE, !.wellFormed = TRUE,
                            !.targetSlot = [maxParticipants |-> 1, bookingCount |-> 0]]]
    /\ slotReq = <<>>
    /\ rateReq = <<>>
    /\ voteReq = <<>>
    /\ postReq = <<>>
    /\ statusReq = <<>>
    /\ reviewsCollection = {}
    /\ applyReq = <<>>
    /\ userReq = <<>>
    /\ patchReq = [h \in PatchRequests |-> IdlePatch]
    /\ reviewReq = <<>>
    /\ slotAddReq = <<>>
    /\ now = 1

NextPatch ==
    \/ \E h \in PatchRequests, token \in PatchTokens, id \in {0, 1, BadBookingId},
          body \in PatchBodies : BookingPatch(h, token, id, body)
    \/ \E h \in PatchRequests : PatchFindBooking(h)
    \/ \E h \in PatchRequests : PatchUpdate(h)
    \/ BookingRollback(1)

SpecPatch == InitPatch /\ [][NextPatch]_vars

\* C15: a step leaves every stored Booking's email, trainerId, slotId, price
\* and hasReviewed as they are; a Booking's transactionId or paymentStatus
\* changes only in the successful write of a patch request addressed to it
\* whose requester is the booking's owner or carries the admin role; and the
\* read of a patch request addressed to a stored Booking by any other
\* requester ends the request with 403 Forbidden, the bookings unchanged.
PatchTouchesOnlyPayment ==
    [][/\ \A b \in bookingsCollection : \A c \in bookingsCollection' :
              c._id = b._id
              => /\ c.email = b.email /\ c.trainerId = b.trainerId
                 /\ c.slotId = b.slotId /\ c.price = b.price
                 /\ c.hasReviewed = b.hasReviewed
                 /\ (c # b => \E h \in PatchRequests :
                        /\ patchReq[h].pc = "update" /\ patchReq'[h].pc = "done"
                        /\ patchReq'[h].res = 200 /\ patchReq[h].id = b._id
                        /\ (patchReq[h].principal = b.email
                               \/ patchReq[h].tokenRole = "admin"))
       /\ \A h \in PatchRequests :
              ( /\ patchReq[h].pc = "findBooking" /\ patchReq'[h].pc # "findBooking"
                /\ \E b \in bookingsCollection :
                       /\ b._id = patchReq[h].id
                       /\ b.email # patchReq[h].principal
                       /\ patchReq[h].tokenRole # "admin" )
              => /\ patchReq'[h].pc = "done" /\ patchReq'[h].res = 403
                 /\ UNCHANGED bookingsCollection]_vars

\* The admin has patched m1's booking 0, whose payment fields are the new
\* ones, and m2's request on the same booking was answered 403.
PatchWitness ==
    \E h, g \in PatchRequests :
        /\ patchReq[h].pc = "done" /\ patchReq[h].res = 200
        /\ patchReq[h].principal = AdminEmail /\ patchReq[h].id = 0
        /\ patchReq[g].pc = "done" /\ patchReq[g].res = 403
        /\ patchReq[g].principal = "m2" /\ patchReq[g].id = 0
        /\ \E b \in bookingsCollection :
               /\ b._id = 0 /\ b.email = "m1" /\ b.transactionId = "tx2"
               /\ b.paymentStatus = "paid" /\ b.hasReviewed = FALSE

(***************************************************************************)
(* POST /reviews (behind verifyFBToken).  The review inserted by request v *)
(* gets the fresh _id v.                                                   *)
(***************************************************************************)
NReview == 2

ReviewRequests == 1..NReview

IdleReview ==
    [pc |-> "idle", res |-> 0, principal |-> NoValue, reviewerEmail |-> NoValue,
     trainerId |-> NoValue, rating |-> 0]

\* The bodies tried; the names asked for are always there.
ReviewBodies ==
    [reviewerEmail : Members, trainerId : {"t1", "t2", BadId, NoValue},
     rating : { [type |-> "undefined", value |-> 0], [type |-> "number", value |-> 4],
                [type |-> "number", value |-> 6] }]

ReviewPost(v, principal, body) ==
    /\ reviewReq[v].pc = "idle"
    /\ LET seen == [IdleReview EXCEPT !.principal = principal,
                                      !.reviewerEmail = body.reviewerEmail]
       IN  reviewReq' = [reviewReq EXCEPT ![v] =
               IF principal # body.reviewerEmail
               THEN [seen EXCEPT !.pc = "done", !.res = 403]
               ELSE IF body.trainerId = NoValue \/ body.rating.type = "undefined"
               THEN [seen EXCEPT !.pc = "done", !.res = 400]
               ELSE IF body.trainerId = BadId
               THEN [seen EXCEPT !.pc = "done", !.res = 400]
               ELSE IF ~RatingInRange(body.rating)
               THEN [seen EXCEPT !.pc = "done", !.res = 400]
               ELSE [seen EXCEPT !.pc = "findExisting", !.trainerId = body.trainerId,
                                 !.rating = body.rating.value]]
    /\ UNCHANGED <<now, usersCollection, trainerCollection, bookingsCollection,
                   communityCollection, reviewsCollection, bookReq, slotReq, rateReq,
                   voteReq, postReq, statusReq, applyReq, userReq, patchReq, slotAddReq>>

\* reviewsCollection.findOne({ reviewerEmail })
ReviewFindExisting(v) ==
    /\ reviewReq[v].pc = "findExisting"
    /\ reviewReq' = [reviewReq EXCEPT ![v] =
           IF \E r \in reviewsCollection : r.reviewerEmail = reviewReq[v].reviewerEmail
           THEN [@ EXCEPT !.pc = "done", !.res = 409]
           ELSE [@ EXCEPT !.pc = "insert"]]
    /\ UNCHANGED <<now, usersCollection, trainerCollection, bookingsCollection,
                   communityCollection, reviewsCollection, bookReq, slotReq, rateReq,
                   voteReq, postReq, statusReq, applyReq, userReq, patchReq, slotAddReq>>

ReviewDocument(v) ==
    [_id |-> v, reviewerEmail |-> reviewReq[v].reviewerEmail,
     trainerId |-> reviewReq[v].trainerId, rating |-> reviewReq[v].rating]

\* reviewsCollection.insertOne(reviewDocument)
ReviewInsert(v) ==
    /\ reviewReq[v].pc = "insert"
    /\ reviewsCollection' = reviewsCollection \cup {ReviewDocument(v)}
    /\ reviewReq' = [reviewReq EXCEPT ![v].pc = "updateBooking"]
    /\ UNCHANGED <<now, usersCollection, trainerCollection, bookingsCollection,
                   communityCollection, bookReq, slotReq, rateReq,
                   voteReq, postReq, statusReq, applyReq, userReq, patchReq, slotAddReq>>

\* bookingsCollection.updateOne is called with the update document alone:
\* the driver rejects the call, no booking is written, and the catch block
\* answers 500 (the error carries no code 11000).
ReviewUpdateBooking(v) ==
    /\ reviewReq[v].pc = "updateBooking"
    /\ reviewReq' = [reviewReq EXCEPT ![v] = [@ EXCEPT !.pc = "done", !.res = 500]]
    /\ UNCHANGED <<now, usersCollection, trainerCollection, bookingsCollection,
                   communityCollection, reviewsCollection, bookReq, slotReq, rateReq,
                   voteReq, postReq, statusReq, applyReq, userReq, patchReq, slotAddReq>>

InitReview ==
    /\ usersCollection = UsersAtStart
    /\ trainerCollection = TrainersAtStart(1)
    /\ bookingsCollection = {StoredBooking(0, "m1")}
    /\ communityCollection = <<>>
    /\ bookReq = <<>>
    /\ slotReq = <<>>
    /\ rateReq = <<>>
    /\ voteReq = <<>>
    /\ postReq = <<>>
    /\ statusReq = <<>>
    /\ reviewsCollection = {}
    /\ applyReq = <<>>
    /\ userReq = <<>>
    /\ patchReq = <<>>
    /\ reviewReq = [v \in ReviewRequests |-> IdleReview]
    /\ slotAddReq = <<>>
    /\ now = 1

NextReview ==
    \/ \E v \in ReviewRequests, principal \in Members, body \in ReviewBodies :
          ReviewPost(v, principal, body)
    \/ \E v \in ReviewRequests : ReviewFindExisting(v)
    \/ \E v \in ReviewRequests : ReviewInsert(v)
    \/ \E v \in ReviewRequests : ReviewUpdateBooking(v)

SpecReview == InitReview /\ [][NextReview]_vars

\* C16: in every reachable state, also after concurrent submissions of one
\* reviewer, the reviews collection holds at most one Review per
\* reviewerEmail, and a request that found a Review of its reviewer stored
\* was answered 409 Conflict.
OneReviewPerReviewer ==
    /\ \A r, s \in reviewsCollection : r.reviewerEmail = s.reviewerEmail => r = s
    /\ \A v \in ReviewRequests :
           reviewReq[v].pc = "done" /\ reviewReq[v].res = 409
               => \E r \in reviewsCollection : r.reviewerEmail = reviewReq[v].reviewerEmail

(***************************************************************************)
(* POST /bookings of the revision src/index.js: the Booking is inserted    *)
(* first, the trainer looked up after it.  A store call may also reject    *)
(* (connection lost, timeout): the handler's catch block answers 500.      *)
(***************************************************************************)
\* The bodies tried: every field there, the trainer id of a document to
\* come, of no document, or no ObjectId at all; or the price missing.
IndexBookingBodies ==
    [email : Members, trainerId : {InsertedId(1), "t9", BadId}, slotId : SlotIds,
     price : {GoodPrice, [type |-> "undefined", value |-> 0]}, transactionId : {"tx"}]

\* bookingDocument of src/index.js; its _id is the request that inserted it.
IndexBookingDocument(p) ==
    [_id |-> p, email |-> bookReq[p].email, trainerId |-> bookReq[p].trainerId,
     slotId |-> bookReq[p].slotId, price |-> GoodPrice.value, transactionId |-> "tx",
     paymentStatus |-> "paid"]

IndexBookingInsert(p) ==
    /\ bookReq[p].pc = "insert"
    /\ bookingsCollection' = bookingsCollection \cup {IndexBookingDocument(p)}
    /\ bookReq' = [bookReq EXCEPT ![p].pc = "findTrainer"]
    /\ UNCHANGED <<now, usersCollection, trainerCollection,
                   communityCollection, reviewsCollection, slotReq, rateReq, voteReq,
                   postReq, statusReq, applyReq, userReq, patchReq, reviewReq, slotAddReq>>

\* The answer of the handler to what trainerCollection.findOne returned: 0
\* when the slot can be booked.
IndexBookingVerdict(p) ==
    LET t == bookReq[p].trainerId
    IN  IF t \notin DOMAIN trainerCollection THEN 404
        ELSE LET i == SeqIndexOf(trainerCollection[t].slots, bookReq[p].slotId, 1)
             IN  IF i = 0 THEN 404
                 ELSE IF trainerCollection[t].slots[i].isBooked THEN 409
                 ELSE 0

\* trainerCollection.findOne: the three failures each go to their deleteOne
\* with the answer they will give; for a bookable slot the handler builds the
\* update, its updatedAt read from the clock.
IndexBookingFindTrainer(p) ==
    /\ bookReq[p].pc = "findTrainer"
    /\ IF IndexBookingVerdict(p) # 0
       THEN /\ bookReq' = [bookReq EXCEPT ![p].pc = "rollback",
                                          ![p].res = IndexBookingVerdict(p)]
            /\ UNCHANGED now
       ELSE \E date \in Instants :
                /\ now' = date
                /\ bookReq' = [bookReq EXCEPT ![p].pc = "update", ![p].date = date]
    /\ UNCHANGED <<usersCollection, trainerCollection, bookingsCollection,
                   communityCollection, reviewsCollection, slotReq, rateReq, voteReq,
                   postReq, statusReq, applyReq, userReq, patchReq, reviewReq, slotAddReq>>

\* updateOne({ _id, "slots.id": slotId }, { $set: { "slots.$.isBooked": true,
\* updatedAt } }): modifiedCount is 0 when no document matches and when the
\* slot is booked already and the document holds this updatedAt; the handler
\* then deletes its booking and answers 500.
IndexBookingUpdate(p) ==
    /\ bookReq[p].pc = "update"
    /\ LET t == bookReq[p].trainerId
           set == IF t \in DOMAIN trainerCollection
                     /\ HasSlot(trainerCollection[t], bookReq[p].slotId)
                  THEN [trainerCollection EXCEPT
                           ![t].slots = [@ EXCEPT
                               ![SeqIndexOf(@, bookReq[p].slotId, 1)].isBooked = TRUE],
                           ![t].updatedAt = bookReq[p].date]
                  ELSE trainerCollection
       IN  /\ trainerCollection' = set
           /\ bookReq' = [bookReq EXCEPT ![p] =
                  IF set = trainerCollection
                  THEN [@ EXCEPT !.pc = "rollback", !.res = 500, !.date = 0]
                  ELSE [@ EXCEPT !.pc = "done", !.res = 201, !.date = 0]]
    /\ UNCHANGED <<now, usersCollection, bookingsCollection,
                   communityCollection, reviewsCollection, slotReq, rateReq, voteReq,
                   postReq, statusReq, applyReq, userReq, patchReq, reviewReq, slotAddReq>>

\* bookingsCollection.deleteOne({ _id: bookingResult.insertedId }), then the
\* answer the failure asked for.
IndexBookingRollback(p) ==
    /\ bookReq[p].pc = "rollback"
    /\ bookingsCollection' = DeleteBooking(p)
    /\ bookReq' = [bookReq EXCEPT ![p].pc = "done"]
    /\ UNCHANGED <<now, usersCollection, trainerCollection,
                   communityCollection, reviewsCollection, slotReq, rateReq, voteReq,
                   postReq, statusReq, applyReq, userReq, patchReq, reviewReq, slotAddReq>>

\* The trainer lookup or the slot update rejects: control passes to the catch
\* block, which answers 500 and deletes nothing.
IndexBookingStoreError(p) ==
    /\ bookReq[p].pc \in {"findTrainer", "update"}
    /\ bookReq' = [bookReq EXCEPT ![p].pc = "done", ![p].res = 500, ![p].date = 0]
    /\ UNCHANGED <<now, usersCollection, trainerCollection, bookingsCollection,
                   communityCollection, reviewsCollection, slotReq, rateReq, voteReq,
                   postReq, statusReq, applyReq, userReq, patchReq, reviewReq, slotAddReq>>

(***************************************************************************)
(* POST /trainers/rating/:id of the revision src/index.js: the rating is   *)
(* not checked and neither is the trainer's status; a second rating of one *)
(* rater is answered 200 with success false.                               *)
(***************************************************************************)
IdleIndexRate ==
    [pc |-> "idle", res |-> 0, success |-> FALSE, principal |-> NoValue,
     trainerId |-> NoValue, rating |-> 0, ratings |-> <<>>, date |-> 0]

\* The ratings tried are numbers: one in the range 1..5, one above it.
IndexRatingValues == {3, 9}

\* new ObjectId(trainerId) throws for an id that is none: the catch block
\* answers 500.
IndexRatingPost(r, principal, trainerId, rating) ==
    /\ rateReq[r].pc = "idle"
    /\ LET seen == [IdleIndexRate EXCEPT !.principal = principal, !.trainerId = trainerId]
       IN  rateReq' = [rateReq EXCEPT ![r] =
               IF trainerId = BadId THEN [seen EXCEPT !.pc = "done", !.res = 500]
               ELSE [seen EXCEPT !.pc = "findTrainer", !.rating = rating]]
    /\ UNCHANGED <<now, usersCollection, trainerCollection, bookingsCollection,
                   communityCollection, reviewsCollection, bookReq, slotReq, voteReq,
                   postReq, statusReq, applyReq, userReq, patchReq, reviewReq, slotAddReq>>

\* trainerCollection.findOne({ _id }); for a trainer the requester has not
\* rated the handler builds the update, its updatedAt read from the clock.
IndexRatingFindTrainer(r) ==
    /\ rateReq[r].pc = "findTrainer"
    /\ LET t == rateReq[r].trainerId
       IN  IF t \notin DOMAIN trainerCollection
           THEN /\ rateReq' = [rateReq EXCEPT ![r].pc = "done", ![r].res = 404]
                /\ UNCHANGED now
           ELSE IF AlreadyRated(trainerCollection[t].ratings, rateReq[r].principal)
           THEN /\ rateReq' = [rateReq EXCEPT ![r].pc = "done", ![r].res = 200]
                /\ UNCHANGED now
           ELSE \E date \in Instants :
                    /\ now' = date
                    /\ rateReq' = [rateReq EXCEPT ![r].pc = "update", ![r].date = date,
                                          ![r].ratings = trainerCollection[t].ratings]
    /\ UNCHANGED <<usersCollection, trainerCollection, bookingsCollection,
                   communityCollection, reviewsCollection, bookReq, slotReq, voteReq,
                   postReq, statusReq, applyReq, userReq, patchReq, reviewReq, slotAddReq>>

\* updateOne({ _id }, { $set: { ratings, rating, updatedAt } }); its result
\* is not looked at.
IndexRatingUpdate(r) ==
    /\ rateReq[r].pc = "update"
    /\ LET t == rateReq[r].trainerId
           updatedRatings == Append(rateReq[r].ratings,
                                    [email |-> rateReq[r].principal, rating |-> rateReq[r].rating])
       IN  trainerCollection' =
               IF t \in DOMAIN trainerCollection
               THEN [trainerCollection EXCEPT ![t].ratings = updatedRatings,
                                              ![t].rating = AvgRating(updatedRatings),
                                              ![t].updatedAt = rateReq[r].date]
               ELSE trainerCollection
    /\ rateReq' = [rateReq EXCEPT ![r] =
           [@ EXCEPT !.pc = "done", !.res = 200, !.success = TRUE, !.ratings = <<>>,
                     !.date = 0]]
    /\ UNCHANGED <<now, usersCollection, bookingsCollection, communityCollection,
                   reviewsCollection, bookReq, slotReq, voteReq, postReq, statusReq,
                   applyReq, userReq, patchReq, reviewReq, slotAddReq>>

(***************************************************************************)
(* PATCH /bookings/:id of the revision src/index.js: both payment fields   *)
(* of the body are written, the missing ones as null.                      *)
(***************************************************************************)
\* The bodies tried: no field at all, or both payment fields.
IndexPatchBodies ==
    { [transactionId |-> NoValue, paymentStatus |-> NoValue],
      [transactionId |-> "tx2", paymentStatus |-> "failed"] }

\* new ObjectId(id) throws for an id that is none: the catch block answers
\* 500.
IndexBookingPatch(h, token, id, body) ==
    /\ patchReq[h].pc = "idle"
    /\ LET seen == [IdlePatch EXCEPT !.principal = token.email, !.tokenRole = token.role,
                                     !.id = id, !.transactionId = body.transactionId,
                                     !.paymentStatus = body.paymentStatus]
       IN  patchReq' = [patchReq EXCEPT ![h] =
               IF id = BadBookingId THEN [seen EXCEPT !.pc = "done", !.res = 500]
               ELSE [seen EXCEPT !.pc = "findBooking"]]
    /\ UNCHANGED <<now, usersCollection, trainerCollection, bookingsCollection,
                   communityCollection, reviewsCollection, bookReq, slotReq, rateReq,
                   voteReq, postReq, statusReq, applyReq, userReq, reviewReq, slotAddReq>>

IndexPatchFindBooking(h) ==
    /\ patchReq[h].pc = "findBooking"
    /\ LET found == {b \in bookingsCollection : b._id = patchReq[h].id}
       IN  patchReq' = [patchReq EXCEPT ![h] =
               IF found = {} THEN [@ EXCEPT !.pc = "done", !.res = 404]
               ELSE IF \E b \in found :
                          ~MayPatch(b, patchReq[h].principal, patchReq[h].tokenRole)
               THEN [@ EXCEPT !.pc = "done", !.res = 403]
               ELSE [@ EXCEPT !.pc = "update"]]
    /\ UNCHANGED <<now, usersCollection, trainerCollection, bookingsCollection,
                   communityCollection, reviewsCollection, bookReq, slotReq, rateReq,
                   voteReq, postReq, statusReq, applyReq, userReq, reviewReq, slotAddReq>>

\* $set: { transactionId, paymentStatus, updatedAt }: a field the body does
\* not carry is stored as null, here NoValue.
IndexPatchedBooking(booking, transactionId, paymentStatus) ==
    [booking EXCEPT !.transactionId = transactionId, !.paymentStatus = paymentStatus]

\* updateOne({ _id }, { $set }); res.send(result) whatever it modified.
IndexPatchUpdate(h) ==
    /\ patchReq[h].pc = "update"
    /\ bookingsCollection' =
           { IF b._id = patchReq[h].id
             THEN IndexPatchedBooking(b, patchReq[h].transactionId, patchReq[h].paymentStatus)
             ELSE b : b \in bookingsCollection }
    /\ patchReq' = [patchReq EXCEPT ![h] = [@ EXCEPT !.pc = "done", !.res = 200]]
    /\ UNCHANGED <<now, usersCollection, trainerCollection,
                   communityCollection, reviewsCollection, bookReq, slotReq, rateReq,
                   voteReq, postReq, statusReq, applyReq, userReq, reviewReq, slotAddReq>>

(***************************************************************************)
(* POST /users, PATCH /users and POST /register of the revision            *)
(* src/index.js: none of them asks for a token.                            *)
(***************************************************************************)
\* The bodies tried by POST /users carry an email.
IndexUserBodies == {body \in UserBodies : body.email # NoValue}

\* updateOne({ email }, { $set: { ..., role } }, { upsert: true }), role
\* being the body's or, by default, member.
IndexUsersPost(u, body) ==
    /\ userReq[u].pc = "idle"
    /\ LET role == IF body.role = NoValue THEN "member" ELSE body.role
           seen == [IdleUser EXCEPT !.op = "POST /users", !.email = body.email,
                                    !.role = body.role]
       IN  /\ usersCollection' = UpsertRole(body.email, role)
           /\ userReq' = [userReq EXCEPT ![u] = [seen EXCEPT !.pc = "done", !.res = 200]]
    /\ UNCHANGED <<now, trainerCollection, bookingsCollection, communityCollection,
                   reviewsCollection, bookReq, slotReq, rateReq, voteReq, postReq,
                   statusReq, applyReq, patchReq, reviewReq, slotAddReq>>

\* updateOne({ email }, { $set: updateFields }) without upsert; the result is
\* sent whatever it matched.
IndexUsersPatch(u, body) ==
    /\ userReq[u].pc = "idle"
    /\ LET seen == [IdleUser EXCEPT !.op = "PATCH /users", !.email = body.email,
                                    !.role = body.role]
       IN  IF body.email = NoValue \/ (body.role = NoValue /\ ~body.profile)
           THEN /\ userReq' = [userReq EXCEPT ![u] = [seen EXCEPT !.pc = "done", !.res = 400]]
                /\ UNCHANGED usersCollection
           ELSE /\ usersCollection' =
                       IF body.role = NoValue \/ body.email \notin DOMAIN usersCollection
                       THEN usersCollection
                       ELSE [usersCollection EXCEPT ![body.email].role = body.role]
                /\ userReq' = [userReq EXCEPT ![u] = [seen EXCEPT !.pc = "done", !.res = 200]]
    /\ UNCHANGED <<now, trainerCollection, bookingsCollection, communityCollection,
                   reviewsCollection, bookReq, slotReq, rateReq, voteReq, postReq,
                   statusReq, applyReq, patchReq, reviewReq, slotAddReq>>

\* updateOne({ email }, { $set: { ..., role: "member" } }, { upsert: true })
IndexRegister(u, body) ==
    /\ userReq[u].pc = "idle"
    /\ LET seen == [IdleUser EXCEPT !.op = "POST /register", !.email = body.email]
       IN  IF body.email = NoValue
           THEN /\ userReq' = [userReq EXCEPT ![u] = [seen EXCEPT !.pc = "done", !.res = 400]]
                /\ UNCHANGED usersCollection
           ELSE /\ usersCollection' = UpsertRole(body.email, "member")
                /\ userReq' = [userReq EXCEPT ![u] = [seen EXCEPT !.pc = "findUser"]]
    /\ UNCHANGED <<now, trainerCollection, bookingsCollection, communityCollection,
                   reviewsCollection, bookReq, slotReq, rateReq, voteReq, postReq,
                   statusReq, applyReq, patchReq, reviewReq, slotAddReq>>

\* usersCollection.findOne({ email }): the role signed into the token.
IndexRegisterFindUser(u) ==
    /\ userReq[u].pc = "findUser"
    /\ userReq' = [userReq EXCEPT ![u] =
           [@ EXCEPT !.pc = "done", !.res = 200, !.role = usersCollection[userReq[u].email].role]]
    /\ UNCHANGED <<now, usersCollection, trainerCollection, bookingsCollection,
                   communityCollection, reviewsCollection, bookReq, slotReq, rateReq,
                   voteReq, postReq, statusReq, applyReq, patchReq, reviewReq, slotAddReq>>

(***************************************************************************)
(* POST /community and POST /community/vote of the revision src/index.js:  *)
(* the post is stored under the email of the body, unchecked; the vote is  *)
(* answered 200 whatever its update modified.                              *)
(***************************************************************************)
IndexCommunityInsert(c, principal, email) ==
    /\ postReq[c].pc = "idle"
    /\ communityCollection' =
           [id \in DOMAIN communityCollection \cup {c} |->
               IF id = c THEN NewPost(email) ELSE communityCollection[id]]
    /\ postReq' = [postReq EXCEPT ![c] = [pc |-> "done", res |-> 201, principal |-> principal]]
    /\ UNCHANGED <<now, reviewsCollection, applyReq, userReq, patchReq, reviewReq, slotAddReq,
                   usersCollection, trainerCollection, bookingsCollection,
                   bookReq, slotReq, rateReq, voteReq, statusReq>>

\* A postId that is there but is no ObjectId.
MalformedPostId == -2

\* A missing postId or an unknown voteType is answered 400; new
\* ObjectId(postId) throws for an id that is none, and the catch block
\* answers 500.
IndexVotePost(v, principal, postId, voteType) ==
    /\ voteReq[v].pc = "idle"
    /\ voteReq' = [voteReq EXCEPT ![v] =
           IF postId = InvalidPostId \/ voteType \notin {"like", "dislike", NoValue}
           THEN [IdleVote EXCEPT !.pc = "done", !.res = 400, !.principal = principal]
           ELSE IF postId = MalformedPostId
           THEN [IdleVote EXCEPT !.pc = "done", !.res = 500, !.principal = principal]
           ELSE [IdleVote EXCEPT !.pc = "findPost", !.principal = principal,
                                 !.postId = postId, !.voteType = voteType]]
    /\ UNCHANGED <<now, reviewsCollection, applyReq, userReq, patchReq, reviewReq, slotAddReq,
                   usersCollection, trainerCollection, bookingsCollection,
                   communityCollection, bookReq, slotReq, rateReq, postReq, statusReq>>

IndexVoteFindPost(v) ==
    /\ voteReq[v].pc = "findPost"
    /\ voteReq' = [voteReq EXCEPT ![v] =
           IF voteReq[v].postId \notin DOMAIN communityCollection
           THEN [@ EXCEPT !.pc = "done", !.res = 404]
           ELSE LET votes == NewVotes(communityCollection[voteReq[v].postId].votes,
                                      voteReq[v].principal, voteReq[v].voteType)
                IN  [@ EXCEPT !.pc = "update",
                              !.post = communityCollection[voteReq[v].postId].votes,
                              !.votes = votes,
                              !.likes = CountType(votes, "like"),
                              !.dislikes = CountType(votes, "dislike")]]
    /\ UNCHANGED <<now, reviewsCollection, applyReq, userReq, patchReq, reviewReq, slotAddReq,
                   usersCollection, trainerCollection, bookingsCollection,
                   communityCollection, bookReq, slotReq, rateReq, postReq, statusReq>>

\* updateOne's $set of votes, likes and dislikes; the answer is 200 whatever
\* the update modified.
IndexVoteUpdate(v) ==
    /\ voteReq[v].pc = "update"
    /\ LET id == voteReq[v].postId
       IN  communityCollection' =
               IF id \in DOMAIN communityCollection
               THEN [communityCollection EXCEPT ![id].votes = voteReq[v].votes,
                                                ![id].likes = voteReq[v].likes,
                                                ![id].dislikes = voteReq[v].dislikes]
               ELSE communityCollection
    /\ voteReq' = [voteReq EXCEPT ![v] =
           [@ EXCEPT !.pc = "done", !.res = 200,
                     !.post = <<>>, !.votes = <<>>, !.likes = 0, !.dislikes = 0]]
    /\ UNCHANGED <<now, reviewsCollection, applyReq, userReq, patchReq, reviewReq, slotAddReq,
                   usersCollection, trainerCollection, bookingsCollection,
                   bookReq, slotReq, rateReq, postReq, statusReq>>

(***************************************************************************)
(* The revision src/index.js: trainers come from POST /trainers alone,     *)
(* members book their slots.                                               *)
(***************************************************************************)
InitIndex ==
    /\ usersCollection = UsersAtStart
    /\ trainerCollection = <<>>
    /\ bookingsCollection = {}
    /\ communityCollection = <<>>
    /\ bookReq = [p \in BookRequests |-> IdleBook]
    /\ slotReq = <<>>
    /\ rateReq = <<>>
    /\ voteReq = <<>>
    /\ postReq = <<>>
    /\ statusReq = <<>>
    /\ reviewsCollection = {}
    /\ applyReq = [q \in ApplyRequests |-> IdleApply]
    /\ userReq = <<>>
    /\ patchReq = <<>>
    /\ reviewReq = <<>>
    /\ slotAddReq = <<>>
    /\ now = 1

NextIndex ==
    \/ \E q \in ApplyRequests, trainerData \in AddTrainerBodies : AddTrainer(q, trainerData)
    \/ \E q \in ApplyRequests : AddTrainerInsert(q)
    \/ \E p \in BookRequests, principal \in Members, body \in IndexBookingBodies :
          IndexBookingPost(p, principal, body)
    \/ \E p \in BookRequests : IndexBookingInsert(p)
    \/ \E p \in BookRequests : IndexBookingFindTrainer(p)
    \/ \E p \in BookRequests : IndexBookingUpdate(p)
    \/ \E p \in BookRequests : IndexBookingRollback(p)
    \/ \E p \in BookRequests : IndexBookingStoreError(p)

SpecIndex == InitIndex /\ [][NextIndex]_vars

(***************************************************************************)
(* The revision src/index.js, members: the trainer of POST /trainers has   *)
(* one open slot; a member books it, members rate the trainer and patch    *)
(* the booking.                                                            *)
(***************************************************************************)
\* The trainer added: every field there, one open slot s1.
IndexMemberTrainer ==
    [email |-> TrainerOneEmail, name |-> "name", status |-> NoValue,
     slots |-> <<NewSlot("s1", 1)>>]

\* The booking of m1: every field there.
IndexMemberBooking ==
    [email |-> "m1", trainerId |-> InsertedId(1), slotId |-> "s1", price |-> GoodPrice,
     transactionId |-> "tx"]

InitIndexMembers ==
    /\ usersCollection = UsersAtStart
    /\ trainerCollection = <<>>
    /\ bookingsCollection = {}
    /\ communityCollection = <<>>
    /\ bookReq = [p \in {1} |-> IdleBook]
    /\ slotReq = <<>>
    /\ rateReq = [r \in RateRequests |-> IdleIndexRate]
    /\ voteReq = <<>>
    /\ postReq = <<>>
    /\ statusReq = <<>>
    /\ reviewsCollection = {}
    /\ applyReq = [q \in {1} |-> IdleApply]
    /\ userReq = <<>>
    /\ patchReq = [h \in {1} |-> IdlePatch]
    /\ reviewReq = <<>>
    /\ slotAddReq = <<>>
    /\ now = 1

NextIndexMembers ==
    \/ AddTrainer(1, IndexMemberTrainer)
    \/ AddTrainerInsert(1)
    \/ IndexBookingPost(1, "m1", IndexMemberBooking)
    \/ IndexBookingInsert(1)
    \/ IndexBookingFindTrainer(1)
    \/ IndexBookingUpdate(1)
    \/ IndexBookingRollback(1)
    \/ \E r \in RateRequests, principal \in Members, trainerId \in {InsertedId(1), "t9", BadId},
          rating \in IndexRatingValues : IndexRatingPost(r, principal, trainerId, rating)
    \/ \E r \in RateRequests : IndexRatingFindTrainer(r)
    \/ \E r \in RateRequests : IndexRatingUpdate(r)
    \/ \E token \in PatchTokens, id \in {1, 2, BadBookingId}, body \in IndexPatchBodies :
          IndexBookingPatch(1, token, id, body)
    \/ IndexPatchFindBooking(1)
    \/ IndexPatchUpdate(1)

SpecIndexMembers == InitIndexMembers /\ [][NextIndexMembers]_vars

(***************************************************************************)
(* The revision src/index.js, accounts: POST /users, PATCH /users and      *)
(* POST /register, each open to requesters without a token.                *)
(***************************************************************************)
InitIndexAccounts ==
    /\ usersCollection = UsersAtStart
    /\ trainerCollection = <<>>
    /\ bookingsCollection = {}
    /\ communityCollection = <<>>
    /\ bookReq = <<>>
    /\ slotReq = <<>>
    /\ rateReq = <<>>
    /\ voteReq = <<>>
    /\ postReq = <<>>
    /\ statusReq = <<>>
    /\ reviewsCollection = {}
    /\ applyReq = <<>>
    /\ userReq = [u \in {1, 2} |-> IdleUser]
    /\ patchReq = <<>>
    /\ reviewReq = <<>>
    /\ slotAddReq = <<>>
    /\ now = 1

NextIndexAccounts ==
    \/ \E u \in {1, 2}, body \in IndexUserBodies : IndexUsersPost(u, body)
    \/ \E u \in {1, 2}, body \in UserBodies : IndexUsersPatch(u, body)
    \/ \E u \in {1, 2}, body \in UserBodies : IndexRegister(u, body)
    \/ \E u \in {1, 2} : IndexRegisterFindUser(u)

SpecIndexAccounts == InitIndexAccounts /\ [][NextIndexAccounts]_vars

(***************************************************************************)
(* The revision src/index.js, the forum: members post and vote.            *)
(***************************************************************************)
InitIndexForum ==
    /\ usersCollection = UsersAtStart
    /\ trainerCollection = <<>>
    /\ bookingsCollection = {}
    /\ communityCollection = <<>>
    /\ bookReq = <<>>
    /\ slotReq = <<>>
    /\ rateReq = <<>>
    /\ voteReq = [v \in VoteRequests |-> IdleVote]
    /\ postReq = [c \in PostRequests |-> IdlePost]
    /\ statusReq = <<>>
    /\ reviewsCollection = {}
    /\ applyReq = <<>>
    /\ userReq = <<>>
    /\ patchReq = <<>>
    /\ reviewReq = <<>>
    /\ slotAddReq = <<>>
    /\ now = 1

NextIndexForum ==
    \/ \E c \in PostRequests, principal \in Members, email \in Members :
          IndexCommunityInsert(c, principal, email)
    \/ \E v \in VoteRequests, principal \in Members,
          postId \in PostRequests \cup {InvalidPostId, MalformedPostId}, voteType \in VoteTypes :
          IndexVotePost(v, principal, postId, voteType)
    \/ \E v \in VoteRequests : IndexVoteFindPost(v)
    \/ \E v \in VoteRequests : IndexVoteUpdate(v)

SpecIndexForum == InitIndexForum /\ [][NextIndexForum]_vars

\* C12: every step that stores a new Trainer document stores it with status
\* pending; a trainer's status changes only in the write of a status request
\* that passed verifyAdmin (the requester's stored role was admin); and a
\* status request of a requester whose stored role is not admin ends at once
\* with 403, status and roles unchanged.
AdminDecidesAcceptance ==
    [][/\ \A t \in (DOMAIN trainerCollection') \ DOMAIN trainerCollection :
              trainerCollection'[t].status = "pending"
       /\ \A t \in DOMAIN trainerCollection :
              (t \in DOMAIN trainerCollection'
                  /\ trainerCollection'[t].status # trainerCollection[t].status)
              => \E a \in DOMAIN statusReq :
                     /\ statusReq[a].pc = "setStatus" /\ statusReq'[a].pc = "done"
                     /\ statusReq[a].trainerId = t
       /\ \A a \in DOMAIN statusReq :
              (statusReq[a].pc = "idle" /\ statusReq'[a].pc # "idle"
                  /\ ~IsAdmin(statusReq'[a].principal))
              => /\ statusReq'[a].pc = "done" /\ statusReq'[a].res = 403
                 /\ UNCHANGED <<trainerCollection, usersCollection>>]_vars

\* C17: whatever makes a booking request fail after its Booking was inserted
\* (trainer or slot missing, slot full, update modifying nothing, a store
\* error in the trainer lookup or the slot update), the Booking is deleted
\* before the request completes: a request that has finished with an error
\* has no Booking of its own stored.
CompensationOnAnyFailure ==
    \A p \in BookRequests :
        bookReq[p].pc = "done" /\ bookReq[p].res # 201
            => ~(\E b \in bookingsCollection : b._id = p)

(***************************************************************************)
(* The outcomes of the aggregation: member m1 books slots of the accepted  *)
(* trainer t1, of the pending trainer t2 and of t9, which is no trainer,   *)
(* while the trainer of t1 deletes its slot s1.                            *)
(***************************************************************************)
\* The self-bookings of m1 with every field right.
OutcomeBodies == {b \in BookingBodies : FieldsWellFormed(b) /\ b.email = "m1"}

NextOutcomes ==
    \/ \E p \in BookRequests, body \in OutcomeBodies : BookingPost(p, body.email, body)
    \/ \E p \in BookRequests : BookingAggregate(p)
    \/ \E p \in BookRequests : BookingInsert(p)
    \/ \E p \in BookRequests : BookingUpdateSlot(p)
    \/ \E p \in BookRequests : BookingRollback(p)
    \/ \E r \in SlotRequests : SlotDeleteFind(r, TrainerOneEmail, "s1")
    \/ \E r \in SlotRequests : SlotDeletePull(r)

SpecOutcomes == Init /\ [][NextOutcomes]_vars

\* The slot of that id on the stored trainer t, as the aggregation step of
\* request p finds it.
SlotAsked(p) ==
    LET slots == trainerCollection[bookReq[p].trainerId].slots
    IN  slots[SeqIndexOf(slots, bookReq[p].slotId, 1)]

\* Request p leaves its aggregation step.
Aggregates(p) == bookReq[p].pc = "aggregate" /\ bookReq'[p].pc # "aggregate"

\* C18: the aggregation step answers 404 NotFound for a trainer id
\* of no trainer, 403 Forbidden for a trainer that is stored but not
\* accepted, 404 for an accepted trainer without a slot of that id, and
\* 409 Conflict for a slot with bookingCount >= maxParticipants.
DistinctErrorOutcomes ==
    [][\A p \in BookRequests :
          Aggregates(p)
          => LET t == bookReq[p].trainerId
             IN  /\ t \notin DOMAIN trainerCollection
                      => bookReq'[p].pc = "done" /\ bookReq'[p].res = 404
                 /\ (t \in DOMAIN trainerCollection
                        /\ trainerCollection[t].status # "accepted")
                      => bookReq'[p].pc = "done" /\ bookReq'[p].res = 403
                 /\ (t \in DOMAIN trainerCollection
                        /\ trainerCollection[t].status = "accepted"
                        /\ ~HasSlot(trainerCollection[t], bookReq[p].slotId))
                      => bookReq'[p].pc = "done" /\ bookReq'[p].res = 404
                 /\ (t \in DOMAIN trainerCollection
                        /\ trainerCollection[t].status = "accepted"
                        /\ HasSlot(trainerCollection[t], bookReq[p].slotId)
                        /\ SlotAsked(p).bookingCount >= SlotAsked(p).maxParticipants)
                      => bookReq'[p].pc = "done" /\ bookReq'[p].res = 409]_vars

(***************************************************************************)
(* POST /trainers/slots (behind verifyFBToken).  The slot pushed gets the  *)
(* instant its handler read from the clock as its id: two slots built in   *)
(* one millisecond share their id.                                         *)
(***************************************************************************)
NSlotAdd == 1

SlotAddRequests == 1..NSlotAdd

IdleSlotAdd ==
    [pc |-> "idle", res |-> 0, principal |-> NoValue, email |-> NoValue,
     trainerId |-> NoValue, maxParticipants |-> 0, id |-> 0, date |-> 0]

\* maxParticipants as the body carries it: missing, a text that is no
\* number, a number, or a numeral in a string.
MaxParticipantsValues ==
    { [type |-> "undefined", value |-> 0], [type |-> "text", value |-> 0],
      [type |-> "number", value |-> 0], [type |-> "number", value |-> 1],
      [type |-> "number", value |-> 2], [type |-> "numeral", value |-> 2] }

\* parseInt(maxParticipants) || 10: NaN and 0 are falsy.
ParsedMaxParticipants(raw) ==
    IF raw.type \in {"undefined", "text"} \/ raw.value = 0 THEN 10 ELSE raw.value

\* The bodies tried; complete says that slotName, slotTime, days, duration
\* and classType are all there.
SlotAddBodies ==
    [email : {TrainerOneEmail, NoValue}, trainerId : {"t1", "t2", "t9"},
     maxParticipants : MaxParticipantsValues, complete : BOOLEAN]

SlotAddPost(r, principal, body) ==
    /\ slotAddReq[r].pc = "idle"
    /\ LET seen == [IdleSlotAdd EXCEPT !.principal = principal, !.email = body.email]
       IN  slotAddReq' = [slotAddReq EXCEPT ![r] =
               IF ~body.complete \/ body.email = NoValue
               THEN [seen EXCEPT !.pc = "done", !.res = 400]
               ELSE IF principal # body.email
               THEN [seen EXCEPT !.pc = "done", !.res = 403]
               ELSE [seen EXCEPT !.pc = "findTrainer", !.trainerId = body.trainerId,
                         !.maxParticipants = ParsedMaxParticipants(body.maxParticipants)]]
    /\ UNCHANGED <<now, usersCollection, trainerCollection, bookingsCollection,
                   communityCollection, reviewsCollection, bookReq, slotReq, rateReq,
                   voteReq, postReq, statusReq, applyReq, userReq, patchReq, reviewReq>>

\* trainerCollection.findOne({ _id }); for the trainer's own document the
\* handler then builds newSlot and the update: the id is read from the clock
\* first, the update's updatedAt in a later read, which is the same instant
\* or a later one.
SlotAddFindTrainer(r) ==
    /\ slotAddReq[r].pc = "findTrainer"
    /\ LET t == slotAddReq[r].trainerId
       IN  IF t \notin DOMAIN trainerCollection
           THEN /\ slotAddReq' = [slotAddReq EXCEPT ![r].pc = "done", ![r].res = 404]
                /\ UNCHANGED now
           ELSE IF trainerCollection[t].email # slotAddReq[r].email
           THEN /\ slotAddReq' = [slotAddReq EXCEPT ![r].pc = "done", ![r].res = 403]
                /\ UNCHANGED now
           ELSE \E id \in Instants : \E date \in id..MaxClock :
                    /\ now' = date
                    /\ slotAddReq' = [slotAddReq EXCEPT ![r].pc = "push", ![r].id = id,
                                                        ![r].date = date]
    /\ UNCHANGED <<usersCollection, trainerCollection, bookingsCollection,
                   communityCollection, reviewsCollection, bookReq, slotReq, rateReq,
                   voteReq, postReq, statusReq, applyReq, userReq, patchReq, reviewReq>>

\* updateOne({ _id }, { $push: { slots: newSlot }, $set: { updatedAt } })
SlotAddPush(r) ==
    /\ slotAddReq[r].pc = "push"
    /\ LET t == slotAddReq[r].trainerId
       IN  IF t \in DOMAIN trainerCollection
           THEN /\ trainerCollection' = [trainerCollection EXCEPT ![t].slots =
                       Append(@, NewSlot(ClockString(slotAddReq[r].id),
                                         slotAddReq[r].maxParticipants)),
                       ![t].updatedAt = slotAddReq[r].date]
                /\ slotAddReq' = [slotAddReq EXCEPT ![r].pc = "done", ![r].res = 201]
           ELSE /\ slotAddReq' = [slotAddReq EXCEPT ![r].pc = "done", ![r].res = 404]
                /\ UNCHANGED trainerCollection
    /\ UNCHANGED <<now, usersCollection, bookingsCollection,
                   communityCollection, reviewsCollection, bookReq, slotReq, rateReq,
                   voteReq, postReq, statusReq, applyReq, userReq, patchReq, reviewReq>>

(***************************************************************************)
(* Slots: the trainer of t1 adds slots while members book s1 and the slot  *)
(* added by request 1.                                                     *)
(***************************************************************************)
InitSlots ==
    /\ usersCollection = UsersAtStart
    /\ \E k \in 1..MaxCap : trainerCollection = TrainersAtStart(k)
    /\ bookingsCollection = {}
    /\ communityCollection = <<>>
    /\ bookReq = [p \in BookRequests |-> IdleBook]
    /\ slotReq = <<>>
    /\ rateReq = <<>>
    /\ voteReq = <<>>
    /\ postReq = <<>>
    /\ statusReq = <<>>
    /\ reviewsCollection = {}
    /\ applyReq = <<>>
    /\ userReq = <<>>
    /\ patchReq = <<>>
    /\ reviewReq = <<>>
    /\ slotAddReq = [r \in SlotAddRequests |-> IdleSlotAdd]
    /\ now = 1

\* Self-bookings with every field right, on slot s1 or a slot added at the
\* first instant.
SlotBodies ==
    [email : Members, trainerId : {"t1"}, slotId : {"s1", ClockString(1)},
     price : {GoodPrice}, transactionId : {"tx"}]

NextSlots ==
    \/ \E r \in SlotAddRequests, principal \in {TrainerOneEmail, "m1"}, body \in SlotAddBodies :
          SlotAddPost(r, principal, body)
    \/ \E r \in SlotAddRequests : SlotAddFindTrainer(r)
    \/ \E r \in SlotAddRequests : SlotAddPush(r)
    \/ \E p \in BookRequests, body \in SlotBodies : BookingPost(p, body.email, body)
    \/ \E p \in BookRequests : BookingAggregate(p)
    \/ \E p \in BookRequests : BookingInsert(p)
    \/ \E p \in BookRequests : BookingUpdateSlot(p)

SpecSlots == InitSlots /\ [][NextSlots]_vars

\* C19: for every slot of every trainer, in every state reachable by any
\* interleaving of slot creations and booking requests, isBooked is true
\* exactly when bookingCount >= maxParticipants.
IsBookedIffFull ==
    \A t \in DOMAIN trainerCollection : \A s \in SlotsOf(t) :
        s.isBooked <=> s.bookingCount >= s.maxParticipants

(***************************************************************************)
(* Switching a vote: post 0 holds the like of m2, cast earlier.            *)
(***************************************************************************)
InitSwitch ==
    /\ usersCollection = UsersAtStart
    /\ trainerCollection = TrainersAtStart(1)
    /\ bookingsCollection = {}
    /\ communityCollection =
           [id \in {0} |-> [NewPost("m1") EXCEPT
               !.votes = <<[email |-> "m2", type |-> "like"]>>, !.likes = 1]]
    /\ bookReq = <<>>
    /\ slotReq = <<>>
    /\ rateReq = <<>>
    /\ voteReq = [v \in VoteRequests |-> IdleVote]
    /\ postReq = <<>>
    /\ statusReq = <<>>
    /\ reviewsCollection = {}
    /\ applyReq = <<>>
    /\ userReq = <<>>
    /\ patchReq = <<>>
    /\ reviewReq = <<>>
    /\ slotAddReq = <<>>
    /\ now = 1

NextSwitch ==
    \/ \E v \in VoteRequests, principal \in Members, voteType \in VoteTypes :
          VotePost(v, principal, 0, voteType)
    \/ \E v \in VoteRequests : VoteFindPost(v)
    \/ \E v \in VoteRequests : VoteUpdate(v)

SpecSwitch == InitSwitch /\ [][NextSwitch]_vars

\* C20: when a voter who holds a like casts dislike on the post (the write
\* going to the votes the request read), the voter's single entry becomes
\* dislike, likes goes down by 1 and dislikes up by 1, and symmetrically for
\* a dislike switched to like; every other voter's entry is as before, so
\* the counters move by nothing else.
VoteSwitch ==
    [][\A v \in VoteRequests :
          LET before == communityCollection[voteReq[v].postId]
              after == communityCollection'[voteReq[v].postId]
              e == voteReq[v].principal
              t == voteReq[v].voteType
              held == HeldBy(before.votes, e)
          IN  (VoteWrites(v) /\ held \in {"like", "dislike"}
                  /\ t \in {"like", "dislike"} /\ t # held)
              => /\ HeldBy(after.votes, e) = t
                 /\ EntriesOf(after.votes, e) = 1
                 /\ after.likes = before.likes + (IF t = "like" THEN 1 ELSE -1)
                 /\ after.dislikes = before.dislikes + (IF t = "dislike" THEN 1 ELSE -1)
                 /\ \A o \in Members \ {e} :
                        /\ HeldBy(after.votes, o) = HeldBy(before.votes, o)
                        /\ EntriesOf(after.votes, o) = EntriesOf(before.votes, o)
                 /\ voteReq'[v].res = 200]_vars

\* m1 cast like and then dislike on post 0: its entry is a dislike, the like
\* of m2 is still there, likes is 1 and dislikes is 1.
VoteSwitchWitness ==
    \E v, w \in VoteRequests :
        /\ voteReq[v].principal = "m1" /\ voteReq[v].voteType = "like"
        /\ voteReq[v].pc = "done" /\ voteReq[v].res = 200
        /\ voteReq[w].principal = "m1" /\ voteReq[w].voteType = "dislike"
        /\ voteReq[w].pc = "done" /\ voteReq[w].res = 200
        /\ communityCollection[0].votes =
               <<[email |-> "m2", type |-> "like"], [email |-> "m1", type |-> "dislike"]>>
        /\ communityCollection[0].likes = 1 /\ communityCollection[0].dislikes = 1

(***************************************************************************)
(* Taking back a vote that was never cast.                                 *)
(***************************************************************************)
\* C21: a vote request with voteType null by a voter who has no vote on the
\* post is rejected as BadRequest (400) and is a no-op: the post's votes
\* list, likes and dislikes are unchanged.
NullVoteByNonVoterRejected ==
    [][\A v \in VoteRequests :
          (/\ voteReq[v].pc = "update" /\ voteReq'[v].pc = "done"
           /\ voteReq[v].voteType = NoValue
           /\ voteReq[v].postId \in DOMAIN communityCollection
           /\ HeldBy(communityCollection[voteReq[v].postId].votes,
                     voteReq[v].principal) = NoValue)
              => /\ voteReq'[v].res = 400
                 /\ communityCollection' = communityCollection]_vars

\* C22: for every forum post, in every reachable state (any sequence or
\* interleaving of vote requests by any voters), the votes list contains at
\* most one entry per voter email.
OneVotePerVoter ==
    \A id \in DOMAIN communityCollection :
        \A i, j \in 1..Len(communityCollection[id].votes) :
            communityCollection[id].votes[i].email = communityCollection[id].votes[j].email
                => i = j

\* Two requests of one voter overlap on post 0: both read the post before
\* either wrote, the first has stored its vote and the second is about to
\* write the list it computed from the votes it read.
OneVotePerVoterWitness ==
    \E v, w \in VoteRequests :
        /\ v # w
        /\ voteReq[v].principal = voteReq[w].principal
        /\ voteReq[v].pc = "done" /\ voteReq[v].res = 200
        /\ voteReq[w].pc = "update" /\ voteReq[w].postId = 0
        /\ voteReq[w].post = <<>> /\ voteReq[w].votes # <<>>
        /\ EntriesOf(communityCollection[0].votes, voteReq[w].principal) = 1

(***************************************************************************)
(* Slot capacities: the slot-creation bodies of SlotAddBodies and the      *)
(* bodies that carry a negative maxParticipants.                           *)
(***************************************************************************)
NegativeMaxParticipants ==
    { [type |-> "number", value |-> -1], [type |-> "numeral", value |-> -2] }

CapacityBodies ==
    SlotAddBodies \cup
        [email : {TrainerOneEmail}, trainerId : {"t1"},
         maxParticipants : NegativeMaxParticipants, complete : {TRUE}]

NextCapacity ==
    \/ \E r \in SlotAddRequests, principal \in {TrainerOneEmail, "m1"}, body \in CapacityBodies :
          SlotAddPost(r, principal, body)
    \/ \E r \in SlotAddRequests : SlotAddFindTrainer(r)
    \/ \E r \in SlotAddRequests : SlotAddPush(r)
    \/ \E p \in BookRequests, body \in SlotBodies : BookingPost(p, body.email, body)
    \/ \E p \in BookRequests : BookingAggregate(p)
    \/ \E p \in BookRequests : BookingInsert(p)
    \/ \E p \in BookRequests : BookingUpdateSlot(p)

SpecCapacity == InitSlots /\ [][NextCapacity]_vars

\* C23: every slot created through the slot-creation operation has an
\* integer maxParticipants >= 1, for every submitted maxParticipants value
\* (missing, non-numeric, 0 and negative values included), and starts with
\* bookingCount = 0 and an empty bookedMembers list.
CreatedSlotHasCapacity ==
    [][\A r \in SlotAddRequests : \A t \in DOMAIN trainerCollection :
          LET before == trainerCollection[t].slots
              after == trainerCollection'[t].slots
          IN  (/\ slotAddReq[r].pc = "push" /\ slotAddReq'[r].pc = "done"
               /\ Len(after) = Len(before) + 1)
                 => /\ after[Len(after)].id = ClockString(slotAddReq[r].id)
                    /\ after[Len(after)].maxParticipants \in Nat \ {0}
                    /\ after[Len(after)].bookingCount = 0
                    /\ after[Len(after)].bookedMembers = <<>>]_vars

(***************************************************************************)
(* Reviews and the bookings of their reviewer.                             *)
(***************************************************************************)
\* C24: hasReviewed of a Booking starts false and is set to true by the
\* Review operation: once a request has stored its reviewer's review and
\* completed, every booking of that reviewer has hasReviewed = true, and
\* hasReviewed never returns to false.
ReviewMarksBooking ==
    [][/\ \A b \in bookingsCollection' :
             (\A c \in bookingsCollection : c._id # b._id) => b.hasReviewed = FALSE
       /\ \A b \in bookingsCollection, c \in bookingsCollection' :
             (c._id = b._id /\ b.hasReviewed) => c.hasReviewed
       /\ \A v \in ReviewRequests :
             (/\ reviewReq[v].pc # "done" /\ reviewReq'[v].pc = "done"
              /\ \E r \in reviewsCollection' : r._id = v)
                => \A b \in bookingsCollection' :
                      b.email = reviewReq'[v].reviewerEmail => b.hasReviewed]_vars

(***************************************************************************)
(* Slot ownership: the trainers of t1 and t2 ask for slots of t1 to be     *)
(* deleted while a member books slot s1 of t1 and its trainer adds slots.  *)
(***************************************************************************)
NOwnerDel == 2

OwnershipRequests == 1..NOwnerDel
\* One booking request and two slot creations.
OwnershipBookers == {1}
OwnershipAdders == {1, 2}

InitOwnership ==
    /\ usersCollection = UsersAtStart
    /\ trainerCollection = TrainersAtStart(1)
    /\ bookingsCollection = {}
    /\ communityCollection = <<>>
    /\ bookReq = [p \in OwnershipBookers |-> IdleBook]
    /\ slotReq = [r \in OwnershipRequests |-> IdleSlotReq]
    /\ rateReq = <<>>
    /\ voteReq = <<>>
    /\ postReq = <<>>
    /\ statusReq = <<>>
    /\ reviewsCollection = {}
    /\ applyReq = <<>>
    /\ userReq = <<>>
    /\ patchReq = <<>>
    /\ reviewReq = <<>>
    /\ slotAddReq = [r \in OwnershipAdders |-> IdleSlotAdd]
    /\ now = 1

\* The deletions asked for: the trainer of t1 names its slot s1, the trainer
\* of t2 names s2, which only t1 has.
OwnershipDeletions ==
    { [principal |-> TrainerOneEmail, slotId |-> "s1"],
      [principal |-> TrainerTwoEmail, slotId |-> "s2"] }

\* The self-booking of slot s1 of t1 with every field right.
OwnershipBookings ==
    [email : {"m1"}, trainerId : {"t1"}, slotId : {"s1"}, price : {GoodPrice},
     transactionId : {"tx"}]

OwnershipSlot ==
    [email |-> TrainerOneEmail, trainerId |-> "t1",
     maxParticipants |-> [type |-> "number", value |-> 1], complete |-> TRUE]

NextOwnership ==
    \/ \E r \in OwnershipRequests, d \in OwnershipDeletions :
          SlotDeleteFind(r, d.principal, d.slotId)
    \/ \E r \in OwnershipRequests : SlotDeletePull(r)
    \/ \E p \in OwnershipBookers, body \in OwnershipBookings : BookingPost(p, body.email, body)
    \/ \E p \in OwnershipBookers : BookingAggregate(p)
    \/ \E p \in OwnershipBookers : BookingInsert(p)
    \/ \E p \in OwnershipBookers : BookingUpdateSlot(p)
    \/ \E p \in OwnershipBookers : BookingRollback(p)
    \/ \E r \in OwnershipAdders : SlotAddPost(r, TrainerOneEmail, OwnershipSlot)
    \/ \E r \in OwnershipAdders : SlotAddFindTrainer(r)
    \/ \E r \in OwnershipAdders : SlotAddPush(r)

SpecOwnership == InitOwnership /\ [][NextOwnership]_vars

SlotIdsOf(slots) == {slots[i].id : i \in 1..Len(slots)}

\* C25: a slot is removed only by the slot-deletion operation issued by the
\* principal whose email equals the owning trainer's email; a deletion
\* request by any other principal fails with NotFound (404) and leaves every
\* trainer's slot list unchanged; and no operation other than the slot
\* update of a booking changes an existing slot's bookingCount or
\* bookedMembers.  In a step, then, a trainer's slot list either loses the
\* slots of the id that a deletion request of its owner names, the others
\* staying as they are, or keeps every slot in its place, with its counts
\* unless a booking of that id updates it.
SlotsChangeOnlyByOwnerOrBooking ==
    [][/\ \A t \in DOMAIN trainerCollection :
             LET before == trainerCollection[t].slots
                 after == trainerCollection'[t].slots
             IN  \/ \E r \in OwnershipRequests :
                        /\ slotReq[r].pc = "pull" /\ slotReq'[r].pc = "done"
                        /\ slotReq[r].principal = trainerCollection[t].email
                        /\ after = SelectSeq(before, LAMBDA s : s.id # slotReq[r].slotId)
                 \/ /\ Len(after) >= Len(before)
                    /\ \A i \in 1..Len(before) :
                           /\ after[i].id = before[i].id
                           /\ \/ /\ after[i].bookingCount = before[i].bookingCount
                                 /\ after[i].bookedMembers = before[i].bookedMembers
                              \/ \E p \in OwnershipBookers :
                                     /\ bookReq[p].pc = "update" /\ bookReq'[p].pc = "done"
                                     /\ bookReq[p].trainerId = t
                                     /\ bookReq[p].slotId = before[i].id
       /\ \A r \in OwnershipRequests :
             (/\ slotReq[r].pc = "idle" /\ slotReq'[r].pc # "idle"
              /\ \A t \in DOMAIN trainerCollection :
                     slotReq'[r].slotId \in SlotIdsOf(trainerCollection[t].slots)
                         => trainerCollection[t].email # slotReq'[r].principal)
                => /\ slotReq'[r].pc = "done" /\ slotReq'[r].res = 404
                   /\ trainerCollection' = trainerCollection]_vars

\* The trainer of t1 has deleted its slot s1, another principal's deletion
\* request was answered 404, and the slot s2 that request named is still
\* there; a booking had taken the seat of s1 before it went.
SlotsChangeWitness ==
    \E a, b \in OwnershipRequests :
        /\ slotReq[a].pc = "done" /\ slotReq[a].res = 200
        /\ slotReq[a].principal = TrainerOneEmail
        /\ "s1" \notin SlotIdsOf(trainerCollection["t1"].slots)
        /\ slotReq[b].pc = "done" /\ slotReq[b].res = 404
        /\ slotReq[b].principal = TrainerTwoEmail
        /\ "s2" \in SlotIdsOf(trainerCollection["t1"].slots)
        /\ \E p \in OwnershipBookers : bookReq[p].pc = "done" /\ bookReq[p].res = 201

(***************************************************************************)
(* The seat count and the member list of a slot: the trainer of t1 creates *)
(* slots, members book s1 and the slot created first.                      *)
(***************************************************************************)
\* The slots asked for: every field there, the capacity missing (stored as
\* 10) or 2.
SeatSlots ==
    [email : {TrainerOneEmail}, trainerId : {"t1"},
     maxParticipants : { [type |-> "undefined", value |-> 0],
                         [type |-> "number", value |-> 2] },
     complete : {TRUE}]

\* The self-bookings of m1 with every field right, on slot s1 or a slot
\* created at the first instant.
SeatBodies == {body \in SlotBodies : body.email = "m1"}

InitSeats ==
    /\ usersCollection = UsersAtStart
    /\ trainerCollection = TrainersAtStart(1)
    /\ bookingsCollection = {}
    /\ communityCollection = <<>>
    /\ bookReq = [p \in BookRequests |-> IdleBook]
    /\ slotReq = <<>>
    /\ rateReq = <<>>
    /\ voteReq = <<>>
    /\ postReq = <<>>
    /\ statusReq = <<>>
    /\ reviewsCollection = {}
    /\ applyReq = <<>>
    /\ userReq = <<>>
    /\ patchReq = <<>>
    /\ reviewReq = <<>>
    /\ slotAddReq = [r \in SlotAddRequests |-> IdleSlotAdd]
    /\ now = 1

NextSeats ==
    \/ \E r \in SlotAddRequests, body \in SeatSlots : SlotAddPost(r, TrainerOneEmail, body)
    \/ \E r \in SlotAddRequests : SlotAddFindTrainer(r)
    \/ \E r \in SlotAddRequests : SlotAddPush(r)
    \/ \E p \in BookRequests, body \in SeatBodies : BookingPost(p, body.email, body)
    \/ \E p \in BookRequests : BookingAggregate(p)
    \/ \E p \in BookRequests : BookingInsert(p)
    \/ \E p \in BookRequests : BookingUpdateSlot(p)

SpecSeats == InitSeats /\ [][NextSeats]_vars

\* C26: for every slot created by the slot-creation operation, in every
\* reachable state under any interleaving of booking requests, the length
\* of bookedMembers equals bookingCount (the increment and the member append
\* are never observed separately).
MembersMatchCount ==
    \A t \in DOMAIN trainerCollection : \A s \in SlotsOf(t) :
        Len(s.bookedMembers) = s.bookingCount

\* Two bookings overlapped on the slot that request 1 created: both had
\* read it empty before either updated it, and both seats and both members
\* are recorded.
MembersMatchWitness ==
    \E s \in SlotsOf("t1"), p, q \in BookRequests :
        /\ s.id = ClockString(1) /\ p # q
        /\ s.bookingCount = 2 /\ Len(s.bookedMembers) = 2
        /\ \A x \in {p, q} :
               /\ bookReq[x].pc = "done" /\ bookReq[x].res = 201
               /\ bookReq[x].slotId = s.id
               /\ bookReq[x].targetSlot.bookingCount = 0

(***************************************************************************)
(* Bookings and seats.                                                     *)
(***************************************************************************)
\* The Bookings stored for slot id of trainer t, without those of the
\* requests in flight between their insert and their slot update or rollback.
SeatedBookings(t, id) ==
    {b \in bookingsCollection :
        /\ b.trainerId = t /\ b.slotId = id
        /\ bookReq[b._id].pc \notin {"update", "rollback"}}

(***************************************************************************)
(* Slots of one id: the trainer of t1 creates slots, two of them possibly  *)
(* within one millisecond, and members book s1 and a slot created at the   *)
(* first instant.                                                          *)
(***************************************************************************)
NTwin == 2

TwinRequests == 1..NTwin

InitTwins ==
    /\ usersCollection = UsersAtStart
    /\ trainerCollection = TrainersAtStart(1)
    /\ bookingsCollection = {}
    /\ communityCollection = <<>>
    /\ bookReq = [p \in BookRequests |-> IdleBook]
    /\ slotReq = <<>>
    /\ rateReq = <<>>
    /\ voteReq = <<>>
    /\ postReq = <<>>
    /\ statusReq = <<>>
    /\ reviewsCollection = {}
    /\ applyReq = <<>>
    /\ userReq = <<>>
    /\ patchReq = <<>>
    /\ reviewReq = <<>>
    /\ slotAddReq = [r \in TwinRequests |-> IdleSlotAdd]
    /\ now = 1

NextTwins ==
    \/ \E r \in TwinRequests : SlotAddPost(r, TrainerOneEmail, OwnershipSlot)
    \/ \E r \in TwinRequests : SlotAddFindTrainer(r)
    \/ \E r \in TwinRequests : SlotAddPush(r)
    \/ \E p \in BookRequests, body \in SlotBodies : BookingPost(p, body.email, body)
    \/ \E p \in BookRequests : BookingAggregate(p)
    \/ \E p \in BookRequests : BookingInsert(p)
    \/ \E p \in BookRequests : BookingUpdateSlot(p)

SpecTwins == InitTwins /\ [][NextTwins]_vars

\* C27: in every quiescent state (no booking request in progress, no crash
\* and no store error having occurred), for every existing slot the number
\* of Booking documents referencing that trainer and slot equals the slot's
\* bookingCount; a Booking without a corresponding seat exists only while
\* its request is between the insert and the slot update or compensation.
QuiescentSeatsMatch ==
    /\ (\A p \in BookRequests : bookReq[p].pc \in {"idle", "done"})
          => \A t \in DOMAIN trainerCollection : \A s \in SlotsOf(t) :
                 Cardinality({b \in bookingsCollection :
                                 b.trainerId = t /\ b.slotId = s.id}) = s.bookingCount
    /\ \A t \in DOMAIN trainerCollection : \A s \in SlotsOf(t) :
           Cardinality(SeatedBookings(t, s.id)) = s.bookingCount

(***************************************************************************)
(* One rating per rater.                                                   *)
(***************************************************************************)
RatingsOf(t, email) ==
    {i \in 1..Len(trainerCollection[t].ratings) : trainerCollection[t].ratings[i].email = email}

\* C28: in every reachable state, under any interleaving of rating requests
\* (two concurrent requests of one rater that both pass the already-rated
\* check included), a trainer's ratings list contains at most one entry per
\* rater email.
OneRatingPerRater ==
    \A t \in DOMAIN trainerCollection, e \in Raters : Cardinality(RatingsOf(t, e)) <= 1

\* Two requests of one rater on t1 both passed the already-rated check and
\* both were answered with success; the list holds one entry of that rater.
OneRatingPerRaterWitness ==
    \E r, q \in RateRequests :
        /\ r # q
        /\ rateReq[r].principal = rateReq[q].principal
        /\ rateReq[r].trainerId = "t1" /\ rateReq[q].trainerId = "t1"
        /\ rateReq[r].pc = "done" /\ rateReq[r].res = 200
        /\ rateReq[q].pc = "done" /\ rateReq[q].res = 200
        /\ Cardinality(RatingsOf("t1", rateReq[r].principal)) = 1

(***************************************************************************)
(* Overlapping decisions on one trainer.                                   *)
(***************************************************************************)
\* C29: after all admin status requests on one trainer have completed, in
\* any interleaving (a concurrent accept and reject of the same trainer
\* included), the linked principal's role is trainer if and only if the
\* trainer's status is accepted; and a status request naming a non-existent
\* trainer changes no principal's role.
RoleFollowsStatus ==
    [][/\ \A t \in DOMAIN trainerCollection' :
             (/\ \A a \in StatusRequests :
                     statusReq'[a].trainerId = t => statusReq'[a].pc = "done"
              /\ \E a \in StatusRequests :
                     statusReq'[a].trainerId = t /\ statusReq'[a].res = 200
              /\ trainerCollection'[t].email \in DOMAIN usersCollection')
                => (usersCollection'[trainerCollection'[t].email].role = "trainer"
                       <=> trainerCollection'[t].status = "accepted")
       /\ \A a \in StatusRequests :
             (statusReq'[a] # statusReq[a]
              /\ statusReq'[a].trainerId \notin DOMAIN trainerCollection)
                => usersCollection' = usersCollection]_vars

(***************************************************************************)
(* The response of a review request and what it stored.                    *)
(***************************************************************************)
\* C30: the Review operation is all-or-nothing with respect to its
\* response: a review request that completed with an error response added
\* no Review document, and a request that added a Review document completed
\* with success (201).
ReviewAllOrNothing ==
    \A v \in ReviewRequests :
        reviewReq[v].pc = "done"
            => /\ reviewReq[v].res >= 400 => ~(\E r \in reviewsCollection : r._id = v)
               /\ (\E r \in reviewsCollection : r._id = v) => reviewReq[v].res = 201

====
